---------------------------- MODULE Spec2Model ----------------------------
(***************************************************************************)
(* Model of the thermal-response and setback-optimisation engine of        *)
(* thermaliq-backend (src/ashrae-formulas-corrected.js).                   *)
(*                                                                         *)
(* The JavaScript engine computes in IEEE doubles.  The model computes in  *)
(* integers with fixed scales:                                             *)
(*   temperatures   centi-degrees F          (72 F      = 7200)            *)
(*   times          centi-hours              (0.25 h    = 25, dt = 5)      *)
(*   areas          deci-square-feet         (100 ft2   = 1000)            *)
(*   U-factors      1e-4 Btu/(h ft2 F)       (0.49      = 4900)            *)
(*   conductance UA deci-Btu/(h F)                                         *)
(*   power          centi-watts                                            *)
(*   energy         watt-centi-hours         (power * time / 100)          *)
(*   exp, ln        1e-4                     (FP = 10000)                  *)
(* Divisions truncate.  Infinity (an unreachable target temperature) is    *)
(* the value Infinity, larger than every time the model can produce.       *)
(***************************************************************************)
EXTENDS Integers, Sequences, FiniteSets, TLC

(***************************************************************************)
(* Arithmetic helpers                                                      *)
(***************************************************************************)
FP == 10000

Infinity == 100000000

Abs(x) == IF x < 0 THEN -x ELSE x

Min(a, b) == IF a < b THEN a ELSE b

Max(a, b) == IF a > b THEN a ELSE b

\* Math.sqrt on non-negative integers: largest r with r*r <= n (bisection).
RECURSIVE SqrtBetween(_, _, _)
SqrtBetween(n, lo, hi) ==
  IF lo >= hi THEN lo
  ELSE LET mid == (lo + hi + 1) \div 2
       IN IF mid * mid <= n THEN SqrtBetween(n, mid, hi)
                            ELSE SqrtBetween(n, lo, mid - 1)

Sqrt(n) == SqrtBetween(n, 0, Min(n, 46340))

\* e^(-q) for whole q, scale FP.
ExpNegWhole(q) ==
  CASE q = 0 -> 10000 [] q = 1 -> 3679 [] q = 2 -> 1353 [] q = 3 -> 498
    [] q = 4 -> 183   [] q = 5 -> 67   [] q = 6 -> 25   [] q = 7 -> 9
    [] q = 8 -> 3     [] q = 9 -> 1    [] OTHER -> 0

\* Taylor series of e^(-f), 0 <= f < 1, f and the result at scale FP.
RECURSIVE ExpNegSeries(_, _, _, _)
ExpNegSeries(f, k, term, acc) ==
  IF k > 9 \/ term = 0 THEN acc
  ELSE LET next == (term * f) \div (k * FP)
       IN ExpNegSeries(f, k + 1, next,
                       IF k % 2 = 1 THEN acc - next ELSE acc + next)

\* Math.exp(-num/den) for num >= 0, den > 0, result at scale FP.
ExpNeg(num, den) ==
  LET q == num \div den
      f == ((num % den) * FP) \div den
  IN IF q > 9 THEN 0
     ELSE (ExpNegWhole(q) * ExpNegSeries(f, 1, FP, FP)) \div FP

\* 2*atanh(z) = -ln((1-z)/(1+z)), z at scale FP, 0 <= z <= 1/3.
AtanhSeries2(z) ==
  LET z2 == (z * z) \div FP
      z3 == (z * z2) \div FP
      z5 == (z3 * z2) \div FP
      z7 == (z5 * z2) \div FP
      z9 == (z7 * z2) \div FP
  IN 2 * (z + z3 \div 3 + z5 \div 5 + z7 \div 7 + z9 \div 9)

\* -Math.log(num/den) for 0 < num < den, result at scale FP.
RECURSIVE NegLn(_, _)
NegLn(num, den) ==
  IF 2 * num < den THEN 6931 + NegLn(2 * num, den)
  ELSE AtanhSeries2(((den - num) * FP) \div (den + num))


(***************************************************************************)
(* MODULE 2/3 of the engine: static tables and the building envelope       *)
(***************************************************************************)
\* CONSTRUCTION_THERMAL_MASS, Btu/(ft3 F) in tenths; unknown key -> 2.5.
CONSTRUCTION_THERMAL_MASS(construction_type) ==
  CASE construction_type = "wood_frame" -> 25
    [] construction_type = "brick" -> 80
    [] construction_type = "concrete" -> 120
    [] construction_type = "concrete_block" -> 60
    [] construction_type = "mixed" -> 50
    [] OTHER -> 25

\* R_VALUE_MATRIX[insulation_quality]?.[construction_era] || 13
R_VALUE_MATRIX(insulation_quality, construction_era) ==
  LET row == CASE insulation_quality = "poor" -> <<8, 10, 11, 13>>
               [] insulation_quality = "average" -> <<11, 13, 15, 19>>
               [] insulation_quality = "good" -> <<15, 19, 21, 25>>
               [] insulation_quality = "excellent" -> <<19, 25, 30, 38>>
               [] OTHER -> <<13, 13, 13, 13>>
  IN CASE construction_era = "before_1980" -> row[1]
       [] construction_era = "1980_2000" -> row[2]
       [] construction_era = "2000_2010" -> row[3]
       [] construction_era = "after_2010" -> row[4]
       [] OTHER -> 13

\* U_WINDOWS[window_type] || 0.49, scale 1e-4.
U_WINDOWS(window_type) ==
  CASE window_type = "single_pane" -> 10400
    [] window_type = "double_pane" -> 4900
    [] window_type = "triple_pane" -> 2700
    [] window_type = "low_e_double" -> 3300
    [] OTHER -> 4900

\* BuildingEnvelope.getUFactors, scale 1e-4.
getUFactors(inputs) ==
  LET wall_r_value == R_VALUE_MATRIX(inputs.insulation_quality,
                                     inputs.construction_era)
  IN [wall   |-> FP \div wall_r_value,
      window |-> U_WINDOWS(inputs.window_type),
      door   |-> 5000,
      roof   |-> (2 * FP) \div (3 * wall_r_value),
      floor  |-> 1000]

\* BuildingEnvelope.calculateComponents.  Lengths in centi-feet, areas in
\* deci-square-feet, volume in cubic feet.
calculateComponents(inputs) ==
  LET floor_area == inputs.floor_area
      ceiling_height == inputs.ceiling_height
      num_floors == inputs.num_floors
      footprint_area == (floor_area * 10) \div num_floors
      width == Sqrt((floor_area * 10000 * 2) \div (3 * num_floors))
      length == (width * 3) \div 2
      perimeter == 2 * (width + length)
      wall_height == ceiling_height * num_floors
      gross_wall_area == (perimeter * wall_height) \div 10
      window_area == (gross_wall_area * inputs.window_area_percent) \div 100
      door_area == inputs.num_exterior_doors * 210
      net_wall_area == gross_wall_area - window_area - door_area
      roof_area == footprint_area
      exposed_floor_area == IF num_floors = 1 THEN footprint_area ELSE 0
      U_factors == getUFactors(inputs)
  IN [walls   |-> [area |-> net_wall_area, U_factor |-> U_factors.wall],
      windows |-> [area |-> window_area, U_factor |-> U_factors.window],
      doors   |-> [area |-> door_area, U_factor |-> U_factors.door],
      roof    |-> [area |-> roof_area, U_factor |-> U_factors.roof],
      floor   |-> [area |-> exposed_floor_area, U_factor |-> U_factors.floor],
      volume  |-> floor_area * ceiling_height * num_floors,
      total_area |-> net_wall_area + window_area + door_area + roof_area
                     + exposed_floor_area,
      geometry |-> [width |-> width, length |-> length,
                    perimeter |-> perimeter, wall_height |-> wall_height,
                    footprint_area |-> footprint_area]]

\* BuildingEnvelope.getEffectiveUFactor: area-weighted mean, scale 1e-4.
getEffectiveUFactor(components) ==
  (components.walls.U_factor * components.walls.area
   + components.windows.U_factor * components.windows.area
   + components.doors.U_factor * components.doors.area
   + components.roof.U_factor * components.roof.area
   + components.floor.U_factor * components.floor.area)
  \div components.total_area

\* U_eff * total_area, the conductance of the whole envelope (deci-Btu/(h F)).
Conductance(components) ==
  (getEffectiveUFactor(components) * components.total_area) \div FP

\* BuildingEnvelope.getComponentHeatTransfer(...).total, centi-Btu/h, signed.
getComponentHeatTransfer(components, T_indoor, T_outdoor) ==
  LET deltaT == T_outdoor - T_indoor
      q == (Conductance(components) * Abs(deltaT)) \div 10
  IN IF deltaT < 0 THEN -q ELSE q

(***************************************************************************)
(* MODULE 4: thermal mass and time constant                                *)
(***************************************************************************)
\* ThermalMassModel.calculateThermalCapacitance, Btu/F.
calculateThermalCapacitance(inputs, components) ==
  (CONSTRUCTION_THERMAL_MASS(inputs.construction_type) * components.volume)
  \div 10

\* ThermalMassModel.calculateThermalResistance, 1e-6 h F/Btu.
calculateThermalResistance(components) ==
  (10 * 1000000) \div Conductance(components)

\* timeConstant = thermalResistance * thermalCapacitance, centi-hours.
getTimeConstant(inputs, components) ==
  (calculateThermalResistance(components)
   * calculateThermalCapacitance(inputs, components)) \div FP

\* ThermalMassModel.getTemperatureAtTime
getTemperatureAtTime(tau, T_initial, T_outdoor, time_hours) ==
  LET gap == T_initial - T_outdoor
      decayed == (Abs(gap) * ExpNeg(time_hours, tau)) \div FP
  IN IF gap < 0 THEN T_outdoor - decayed ELSE T_outdoor + decayed

\* ThermalMassModel.getTimeToReachTemperature
getTimeToReachTemperature(tau, T_initial, T_target, T_outdoor) ==
  IF Abs(T_initial - T_outdoor) < 10 THEN 0
  ELSE LET den == Abs(T_initial - T_outdoor)
           num == IF T_initial - T_outdoor < 0 THEN T_outdoor - T_target
                                               ELSE T_target - T_outdoor
       IN IF num <= 0 \/ num >= den THEN Infinity
          ELSE (tau * NegLn(num, den)) \div FP

(***************************************************************************)
(* MODULE 5: HVAC performance                                              *)
(***************************************************************************)
SEER_BY_AGE(hvac_age) ==
  CASE hvac_age = "under_5" -> 16
    [] hvac_age = "5_10" -> 14
    [] hvac_age = "10_15" -> 13
    [] hvac_age = "15_plus" -> 10
    [] OTHER -> 13

\* HVACPerformance.getEffectiveSEER, in hundredths.
getEffectiveSEER(inputs, altitude_ft) ==
  LET aged == SEER_BY_AGE(inputs.hvac_age)
      typed == IF inputs.hvac_type = "heat_pump" THEN aged + 1
               ELSE IF inputs.hvac_type = "window_unit" THEN aged - 2
               ELSE aged
      base_seer == IF inputs.seer_rating = 0 THEN typed
                   ELSE inputs.seer_rating
      seer_effective == (base_seer * 100 * (25000 - altitude_ft)) \div 25000
  IN Max(seer_effective, 800)

\* HVACPerformance.getCOP = seer / 3.412, in hundredths.
getCOP(inputs, altitude_ft) ==
  (getEffectiveSEER(inputs, altitude_ft) * 1000) \div 3412

\* HVACPerformance.getPowerConsumption: (Q / 3412) / COP kW, which is
\* Q / SEER watts; Q in centi-Btu/h, result in centi-watts.
getPowerConsumption(seer, Q_load_btu_hr) ==
  (Q_load_btu_hr * 100) \div seer

(***************************************************************************)
(* MODULE 6: energy calculations.  m is the EnergyModel instance: the      *)
(* envelope components, the time constant tau and the effective SEER.      *)
(***************************************************************************)
dt == 5

\* Electrical power (centi-watts) drawn against the envelope load at T_t.
LoadPower(m, T_t, T_outdoor) ==
  getPowerConsumption(m.seer,
      Abs(getComponentHeatTransfer(m.components, T_t, T_outdoor)))

\* EnergyModel.energyToMaintain.  (A load above 0 over an infinite
\* duration is an infinite energy.)
energyToMaintain(m, T_desired, T_outdoor, duration_hours) ==
  IF duration_hours = Infinity /\ LoadPower(m, T_desired, T_outdoor) > 0
  THEN Infinity
  ELSE (LoadPower(m, T_desired, T_outdoor) * duration_hours) \div 100

\* The loop test of phase 1: has the drifting temperature reached setback?
ReachedSetback(is_cooling, T_t, T_setback) ==
  \/ is_cooling /\ T_t >= T_setback
  \/ ~is_cooling /\ T_t <= T_setback

\* Phase 1 loop, for (t = 0; t < max_drift; t += dt): the first step among
\* lo..hi at which the loop breaks, or -1 when it breaks at none of them.
\* (The steps are scanned in order, in halves to keep the evaluation shallow.)
RECURSIVE DriftBreak(_, _, _, _, _, _)
DriftBreak(m, T_desired, T_setback, T_outdoor, lo, hi) ==
  IF lo > hi THEN -1
  ELSE IF lo = hi
       THEN IF ReachedSetback(T_outdoor > T_desired,
                 getTemperatureAtTime(m.tau, T_desired, T_outdoor, lo * dt),
                 T_setback)
            THEN lo ELSE -1
       ELSE LET mid == (lo + hi) \div 2
                first == DriftBreak(m, T_desired, T_setback, T_outdoor, lo, mid)
            IN IF first # -1 THEN first
               ELSE DriftBreak(m, T_desired, T_setback, T_outdoor, mid + 1, hi)

\* Phase 1 loop: the sum of the powers accumulated by steps lo..hi.
RECURSIVE DriftPower(_, _, _, _, _)
DriftPower(m, T_desired, T_outdoor, lo, hi) ==
  IF lo > hi THEN 0
  ELSE IF lo = hi
       THEN LoadPower(m,
              getTemperatureAtTime(m.tau, T_desired, T_outdoor, lo * dt),
              T_outdoor)
       ELSE LET mid == (lo + hi) \div 2
            IN DriftPower(m, T_desired, T_outdoor, lo, mid)
               + DriftPower(m, T_desired, T_outdoor, mid + 1, hi)

\* Phase 1 loop as a whole: the drift_time it leaves (0 when it never
\* breaks) and the sum of the powers of the steps before the break.
DriftLoop(m, T_desired, T_setback, T_outdoor, max_drift) ==
  LET last == (max_drift + dt - 1) \div dt - 1
      first == DriftBreak(m, T_desired, T_setback, T_outdoor, 0, last)
  IN [drift_time |-> IF first = -1 THEN 0 ELSE first * dt,
      sumP |-> DriftPower(m, T_desired, T_outdoor, 0,
                          IF first = -1 THEN last ELSE first - 1)]

\* Phase 3 loop, for (t = 0; t < actual_recovery_time; t += dt): the sum of
\* the powers of steps lo..hi (the loop has no exit, so the sum is split in
\* halves to keep the evaluation shallow).
RECURSIVE RecoveryLoop(_, _, _, _, _, _)
RecoveryLoop(m, T_desired, T_setback, T_outdoor, lo, hi) ==
  IF lo > hi THEN 0
  ELSE IF lo = hi
       THEN LoadPower(m,
              getTemperatureAtTime(m.tau, T_setback, T_desired, lo * dt),
              T_outdoor)
       ELSE LET mid == (lo + hi) \div 2
            IN RecoveryLoop(m, T_desired, T_setback, T_outdoor, lo, mid)
               + RecoveryLoop(m, T_desired, T_setback, T_outdoor, mid + 1, hi)

\* Line 459: actual_recovery_time.  (Infinity less a finite time is
\* Infinity.)
ActualRecoveryTime(recovery_time, absence_hours, drift_time) ==
  Min(recovery_time,
      IF absence_hours = Infinity THEN Infinity
      ELSE absence_hours - drift_time)

\* A hold time that forgets the time the recovery needs.
HoldTimeIgnoringRecovery(absence_hours, drift_time, recovery_time) ==
  Max(0, absence_hours - drift_time - 25)

\* Line 455: time_at_setback.
HoldTime(absence_hours, drift_time, recovery_time) ==
  Max(0, absence_hours - drift_time - recovery_time - 25)

\* EnergyModel.energyWithSetback
energyWithSetback(m, T_desired, T_setback, T_outdoor, absence_hours) ==
  LET tau == m.tau
      natural_drift_time ==
        getTimeToReachTemperature(tau, T_desired, T_setback, T_outdoor)
      use_natural == 10 * natural_drift_time < 4 * absence_hours
      max_drift == Min(tau * 2, (absence_hours * 3) \div 10)
      loop == DriftLoop(m, T_desired, T_setback, T_outdoor, max_drift)
      drift_time ==
        IF use_natural
        THEN Min(natural_drift_time, (absence_hours * 4) \div 10)
        ELSE IF loop.drift_time = 0 THEN max_drift ELSE loop.drift_time
      E_cooldown == IF use_natural THEN 0 ELSE (loop.sumP * dt) \div 100
      recovery_time ==
        getTimeToReachTemperature(tau, T_setback, T_desired, T_outdoor)
      time_at_setback == HoldTime(absence_hours, drift_time, recovery_time)
      E_maintain_setback ==
        energyToMaintain(m, T_setback, T_outdoor, time_at_setback)
      actual_recovery_time ==
        ActualRecoveryTime(recovery_time, absence_hours, drift_time)
      steps == (actual_recovery_time + dt - 1) \div dt
      E_recovery ==
        (RecoveryLoop(m, T_desired, T_setback, T_outdoor, 0, steps - 1) * dt)
        \div 100
  IN [E_total |-> E_cooldown + E_maintain_setback + E_recovery,
      E_cooldown |-> E_cooldown,
      E_maintain_setback |-> E_maintain_setback,
      E_recovery |-> E_recovery,
      time_at_setback |-> time_at_setback,
      recovery_time |-> actual_recovery_time,
      drift_time |-> drift_time]

\* A test that drops the 0.25 h buffer and the minimum hold time.
FeasibleWithoutBuffer(results, absence_hours) ==
  ~(results.recovery_time > absence_hours - results.drift_time)

\* Lines 511-512: the two feasibility tests of findOptimalSetback's loop body.
Feasible(results, absence_hours) ==
  /\ ~(results.recovery_time > absence_hours - results.drift_time - 25)
  /\ ~(results.time_at_setback < 50)

\* findOptimalSetback: search_min and search_max.
SearchMin(T_desired, T_outdoor) ==
  IF T_outdoor > T_desired THEN T_desired + 200
  ELSE Max(T_outdoor + 200, T_desired - 1500)

\* A search_max without the T_desired + 15 cap.
SearchMaxUncapped(T_desired, T_outdoor) ==
  IF T_outdoor > T_desired THEN T_outdoor - 200 ELSE T_desired - 200

\* Lines 489 and 491: search_max.
SearchMax(T_desired, T_outdoor) ==
  IF T_outdoor > T_desired THEN Min(T_outdoor - 200, T_desired + 1500)
  ELSE T_desired - 200

\* The continuation test of the search loop.
SearchContinues(T_desired, T_outdoor, T_setback) ==
  IF T_outdoor > T_desired
  THEN T_setback <= SearchMax(T_desired, T_outdoor)
  ELSE T_setback >= SearchMin(T_desired, T_outdoor)

\* The increment of the search loop: +1 F cooling, -1 F heating.
SearchStep(T_desired, T_outdoor, T_setback) ==
  IF T_outdoor > T_desired THEN T_setback + 100 ELSE T_setback - 100

(***************************************************************************)
(* Helper functions of the engine                                          *)
(***************************************************************************)
\* JavaScript truthiness of inputs[field]: a missing field and 0 are falsy.
Truthy(obj, field) == field \in DOMAIN obj /\ obj[field] # 0

\* getAltitudeFromZip: ALTITUDE_LOOKUP[prefix] || 500.  A zip code is the
\* sequence of its digits.
ALTITUDE_LOOKUP ==
  [p \in {<<8, 0>>, <<8, 4>>, <<8, 7>>, <<3, 3>>, <<9, 0>>, <<9, 8>>,
          <<0, 2>>, <<1, 0>>, <<7, 5>>, <<3, 0>>, <<8, 5>>} |->
     CASE p = <<8, 0>> -> 5280 [] p = <<8, 4>> -> 4500 [] p = <<8, 7>> -> 5000
       [] p = <<3, 3>> -> 0    [] p = <<9, 0>> -> 0    [] p = <<9, 8>> -> 0
       [] p = <<0, 2>> -> 20   [] p = <<1, 0>> -> 50   [] p = <<7, 5>> -> 500
       [] p = <<3, 0>> -> 1000 [] p = <<8, 5>> -> 1100]

getAltitudeFromZip(zip_code) ==
  LET prefix == SubSeq(zip_code, 1, 2)
  IN IF prefix \in DOMAIN ALTITUDE_LOOKUP /\ ALTITUDE_LOOKUP[prefix] # 0
     THEN ALTITUDE_LOOKUP[prefix] ELSE 500

\* zipToState
zipToState(zip) ==
  LET prefix == 10 * zip[1] + zip[2]
  IN CASE prefix >= 1 /\ prefix <= 2 -> "MA"
       [] prefix >= 3 /\ prefix <= 14 -> "NY"
       [] prefix >= 15 /\ prefix <= 19 -> "PA"
       [] prefix >= 20 /\ prefix <= 22 -> "VA"
       [] prefix >= 30 /\ prefix <= 31 -> "GA"
       [] prefix >= 32 /\ prefix <= 34 -> "FL"
       [] prefix >= 60 /\ prefix <= 62 -> "IL"
       [] prefix >= 75 /\ prefix <= 79 -> "TX"
       [] prefix >= 80 /\ prefix <= 81 -> "CO"
       [] prefix >= 85 /\ prefix <= 86 -> "AZ"
       [] prefix >= 90 /\ prefix <= 96 -> "CA"
       [] prefix >= 98 /\ prefix <= 99 -> "WA"
       [] OTHER -> "US"

\* STATE_RATES[state] || 0.13, in 1e-4 $/kWh.
STATE_RATES(state) ==
  CASE state = "MA" -> 2200 [] state = "CT" -> 2100 [] state = "NH" -> 2000
    [] state = "RI" -> 2000 [] state = "CA" -> 1900 [] state = "HI" -> 2800
    [] state = "AK" -> 2300 [] state = "NY" -> 1800 [] state = "VT" -> 1800
    [] state = "FL" -> 1200 [] state = "TX" -> 1200 [] state = "LA" -> 1000
    [] state = "WA" -> 1000 [] state = "ID" -> 1000 [] state = "UT" -> 1100
    [] state = "WY" -> 1100 [] state = "OR" -> 1100 [] OTHER -> 1300

\* A resolution that prefers the bill to the explicit rate.
getElectricityRateBillFirst(inputs) ==
  IF Truthy(inputs, "monthly_electric_bill")
     /\ Truthy(inputs, "monthly_kwh_usage")
  THEN (inputs.monthly_electric_bill * 100) \div inputs.monthly_kwh_usage
  ELSE IF Truthy(inputs, "electricity_rate_manual")
  THEN inputs.electricity_rate_manual
  ELSE STATE_RATES(zipToState(inputs.zip_code))

\* getElectricityRate, in 1e-4 $/kWh.  electricity_rate_manual is in
\* 1e-4 $/kWh, monthly_electric_bill in cents, monthly_kwh_usage in kWh.
getElectricityRate(inputs) ==
  IF Truthy(inputs, "electricity_rate_manual")
  THEN inputs.electricity_rate_manual
  ELSE IF Truthy(inputs, "monthly_electric_bill")
          /\ Truthy(inputs, "monthly_kwh_usage")
  THEN (inputs.monthly_electric_bill * 100) \div inputs.monthly_kwh_usage
  ELSE IF Truthy(inputs, "monthly_electric_bill")
  THEN LET typical_kwh == IF inputs.floor_area < 1200 THEN 600
                          ELSE IF inputs.floor_area < 2500 THEN 900
                          ELSE 1200
       IN (inputs.monthly_electric_bill * 100) \div typical_kwh
  ELSE STATE_RATES(zipToState(inputs.zip_code))

\* Hours of the day are counted in tenths of a minute (600 to the hour), so
\* that whole minutes and hundredths of an hour are both exact.
\* parseTime: a clock string "h:mm AM" is the record [hours, minutes,
\* period].
parseTime(timeStr) ==
  LET hours == IF timeStr.period = "PM" /\ timeStr.hours # 12
               THEN timeStr.hours + 12
               ELSE IF timeStr.period = "AM" /\ timeStr.hours = 12 THEN 0
               ELSE timeStr.hours
  IN hours * 600 + timeStr.minutes * 10

\* A sum that is not wrapped to 24 hours.
addHoursUnwrapped(startTime, hoursToAdd) == startTime + hoursToAdd

\* Lines 797-799: addHours
addHours(startTime, hoursToAdd) == (startTime + hoursToAdd) % 14400

\* formatTime: the string `${h12}:${m} ${period}` as a record; m is
\* Math.round of the minutes.
formatTime(hours) ==
  LET h == hours \div 600
      m == ((hours - h * 600) + 5) \div 10
  IN [h12 |-> IF h % 12 = 0 THEN 12 ELSE h % 12,
      m |-> m,
      period |-> IF h >= 12 THEN "PM" ELSE "AM"]

(***************************************************************************)
(* Requests.  userInputs is a record holding exactly the fields the caller *)
(* supplied.                                                               *)
(***************************************************************************)
MaxFineGap == 20

MaxCoarseGap == 10

MaxAbsenceK == 1

required == <<"floor_area", "desired_temp", "outdoor_temp", "absence_duration">>

\* The workday house of TEST_CASES.typical_workday and a small, leaky studio
\* whose time constant is short enough for the optimizer to be reached.
Buildings ==
  { [floor_area |-> 2000, ceiling_height |-> 8],
    [floor_area |-> 100, window_type |-> "single_pane",
     insulation_quality |-> "poor", construction_era |-> "before_1980",
     window_area_percent |-> 40] }

DesiredTemps == {7000}

\* outdoor - desired: 0 .. -MaxFineGap tenths of a degree, -1.44 degrees,
\* and -2*MaxCoarseGap .. 2*MaxCoarseGap degrees in steps of two.
OutdoorOffsets ==
  {-10 * k : k \in 0..MaxFineGap} \cup {-144}
  \cup {200 * k : k \in -MaxCoarseGap..MaxCoarseGap}

AbsenceDurations ==
  {200, 800} \cup {2600 + 1400 * k : k \in 0..MaxAbsenceK}

CompleteRequests ==
  { b @@ [desired_temp |-> d, outdoor_temp |-> d + o, absence_duration |-> a,
          absence_start_time |-> [hours |-> 8, minutes |-> 0, period |-> "AM"]] :
      b \in Buildings, d \in DesiredTemps, o \in OutdoorOffsets,
      a \in AbsenceDurations }

\* A request with the fields of `absent` left out and those of `zero` set
\* to 0 (0 F outdoors, for instance).
Without(request, absent, zero) ==
  [f \in (DOMAIN request) \ absent |-> IF f \in zero THEN 0 ELSE request[f]]

RequiredSet == {required[i] : i \in 1..Len(required)}

FlawedBase ==
  [floor_area |-> 100, window_type |-> "single_pane",
   insulation_quality |-> "poor", construction_era |-> "before_1980",
   window_area_percent |-> 40, desired_temp |-> 7000, outdoor_temp |-> 6850,
   absence_duration |-> 2600]

FlawedRequests ==
  { Without(FlawedBase, absent, zero) :
      absent \in SUBSET RequiredSet, zero \in SUBSET RequiredSet }

\* TEST_SCENARIOS.workday_cooling of test-physics-engine.js, the fields the
\* claim about it leaves to their defaults left out.
WorkdayRequest ==
  [floor_area |-> 2000, ceiling_height |-> 8, num_floors |-> 1,
   construction_type |-> "wood_frame", insulation_quality |-> "average",
   desired_temp |-> 7200, outdoor_temp |-> 8500, absence_duration |-> 800]

\* An absence that occurs once a week during four weeks of the year.
OccasionalRequest == FlawedBase @@ [days_per_week |-> 1, weeks_per_year |-> 4]

\* The studio with more glass (tau = 7.9 h), the outdoor temperature 1.99 F
\* below the desired one.
GlazedRequest ==
  [FlawedBase EXCEPT !.window_area_percent = 60, !.outdoor_temp = 6801]

\* The studio left at 8:59 AM for 26.01 hours.
LateStartRequest ==
  [FlawedBase EXCEPT !.absence_duration = 2601]
  @@ [absence_start_time |-> [hours |-> 8, minutes |-> 59, period |-> "AM"]]

Requests ==
  CompleteRequests \cup FlawedRequests
  \cup {WorkdayRequest, OccasionalRequest, GlazedRequest, LateStartRequest}

\* The defaults analyzeThermalStrategy spreads under the user's inputs.
Defaults ==
  [ceiling_height |-> 8, num_floors |-> 1, window_area_percent |-> 15,
   num_exterior_doors |-> 2, construction_type |-> "wood_frame",
   construction_era |-> "1980_2000", insulation_quality |-> "average",
   window_type |-> "double_pane", hvac_type |-> "central_ac",
   hvac_age |-> "10_15", seer_rating |-> 14, humidity |-> 50,
   days_per_week |-> 5, weeks_per_year |-> 52,
   zip_code |-> <<0, 2, 1, 3, 4>>]

(***************************************************************************)
(* MODULE 7: analyzeThermalStrategy as a state machine                     *)
(***************************************************************************)
Null == <<>>

VARIABLES
  userInputs,      \* the argument of analyzeThermalStrategy
  pc,              \* position in analyzeThermalStrategy
  missing,         \* the fields named by the thrown error (a sequence)
  inputs,          \* Null or <<defaults overlaid with userInputs>>
  altitude_ft,     \* Null or <<altitude>>
  energyModel,     \* Null or <<[components, tau, seer]>>
  t_breakeven,     \* Null or <<2.5 * tau>>, in milli-hours
  search,          \* locals of findOptimalSetback while it runs, else Null
  optimal,         \* Null or <<the value findOptimalSetback returned>>
  recommendation,  \* Null or <<recommendation>>
  savings,         \* Null or <<savings>>
  steps,           \* history: the computation steps performed, in order
  optimizerCalls,  \* history: number of calls of findOptimalSetback
  evaluated,       \* history: the candidates simulated by the search loop
  suspended,       \* Null or <<the locals of a second analysis in flight>>
  call             \* Null or a call of one of the engine's pure functions

vars == <<userInputs, pc, missing, inputs, altitude_ft, energyModel,
          t_breakeven, search, optimal, recommendation, savings, steps,
          optimizerCalls, evaluated, suspended, call>>

Init ==
  /\ userInputs \in Requests
  /\ pc = "validate"
  /\ missing = <<>>
  /\ inputs = Null
  /\ altitude_ft = Null
  /\ energyModel = Null
  /\ t_breakeven = Null
  /\ search = Null
  /\ optimal = Null
  /\ recommendation = Null
  /\ savings = Null
  /\ steps = <<>>
  /\ optimizerCalls = 0
  /\ evaluated = <<>>
  /\ suspended = Null
  /\ call = Null

\* required.filter(field => !userInputs[field])
MissingFields(request) ==
  SelectSeq(required, LAMBDA field : ~Truthy(request, field))

\* Lines 556-561: validate the required inputs, throw when one is missing.
Validate ==
  /\ pc = "validate"
  /\ missing' = MissingFields(userInputs)
  /\ pc' = IF Len(MissingFields(userInputs)) > 0 THEN "threw" ELSE "defaults"
  /\ UNCHANGED <<userInputs, inputs, altitude_ft, energyModel, t_breakeven,
                 search, optimal, recommendation, savings, steps,
                 optimizerCalls, evaluated, suspended, call>>

\* Lines 563-581: overlay the user's inputs on the defaults.
SetDefaults ==
  /\ pc = "defaults"
  /\ inputs' = <<userInputs @@ Defaults>>
  /\ steps' = Append(steps, "defaults")
  /\ pc' = "altitude"
  /\ UNCHANGED <<userInputs, missing, altitude_ft, energyModel, t_breakeven,
                 search, optimal, recommendation, savings, optimizerCalls,
                 evaluated, suspended, call>>

\* Line 584: await getAltitudeFromZip(inputs.zip_code).
LookupAltitude ==
  /\ pc = "altitude"
  /\ altitude_ft' = <<getAltitudeFromZip(inputs[1].zip_code)>>
  /\ steps' = Append(steps, "altitude")
  /\ pc' = "models"
  /\ UNCHANGED <<userInputs, missing, inputs, energyModel, t_breakeven,
                 search, optimal, recommendation, savings, optimizerCalls,
                 evaluated, suspended, call>>

\* Lines 586-601: envelope, thermal mass, HVAC and energy model.
NewEnergyModel(in, altitude) ==
  LET components == calculateComponents(in)
  IN [components |-> components,
      tau |-> getTimeConstant(in, components),
      seer |-> getEffectiveSEER(in, altitude)]

BuildModels ==
  /\ pc = "models"
  /\ energyModel' = <<NewEnergyModel(inputs[1], altitude_ft[1])>>
  /\ steps' = Append(steps, "models")
  /\ pc' = "breakeven"
  /\ UNCHANGED <<userInputs, missing, inputs, altitude_ft, t_breakeven,
                 search, optimal, recommendation, savings, optimizerCalls,
                 evaluated, suspended, call>>

\* A gate placed at 3 * tau instead of 2.5 * tau.
BelowThreeTau(absence_duration, tau) == 10 * absence_duration < 30 * tau

\* Line 607: is the absence shorter than the break-even time 2.5 * tau?
BelowBreakEven(absence_duration, tau) == 10 * absence_duration < 25 * tau

\* Lines 608-616 and 626-634: a MAINTAIN recommendation.
MaintainRecommendation(in, reason) ==
  [action |-> "MAINTAIN",
   temperature |-> in.desired_temp,
   setback_temp |-> in.desired_temp,
   restart_time |-> Null,
   recovery_time |-> 0,
   reason |-> reason]

\* Lines 482-500: the locals of findOptimalSetback before its loop.
StartSearch(m, in) ==
  [T_setback |-> SearchMin(in.desired_temp, in.outdoor_temp),
   E_maintain |-> energyToMaintain(m, in.desired_temp, in.outdoor_temp,
                                   in.absence_duration),
   optimal_setback |-> in.desired_temp,
   min_energy |-> energyToMaintain(m, in.desired_temp, in.outdoor_temp,
                                   in.absence_duration),
   optimal_results |-> Null]

\* Lines 603-623: the break-even gate.  Below break-even the recommendation
\* is MAINTAIN at once; otherwise findOptimalSetback is called and runs its
\* lines 482-500 (search range, baseline, initial optimum).
BreakEven ==
  /\ pc = "breakeven"
  /\ t_breakeven' = <<25 * energyModel[1].tau>>
  /\ steps' = Append(steps, "breakeven")
  /\ IF BelowBreakEven(inputs[1].absence_duration, energyModel[1].tau)
     THEN /\ recommendation' =
               <<MaintainRecommendation(inputs[1],
                   "Absence duration less than break-even threshold")>>
          /\ pc' = "savings"
          /\ UNCHANGED <<search, optimizerCalls>>
     ELSE /\ search' = <<StartSearch(energyModel[1], inputs[1])>>
          /\ optimizerCalls' = optimizerCalls + 1
          /\ pc' = "search"
          /\ UNCHANGED recommendation
  /\ UNCHANGED <<userInputs, missing, inputs, altitude_ft, energyModel,
                 optimal, savings, evaluated, suspended, call>>

\* Line 514: does this candidate replace the optimum found so far?
Improves(results, min_energy) == results.E_total < min_energy

\* Lines 510-514: the candidate of one iteration, tested on the results of
\* its simulation.
CandidateOf(in, s, results) ==
  LET feasible == Feasible(results, in.absence_duration)
  IN [T_setback |-> s.T_setback, results |-> results, feasible |-> feasible,
      accepted |-> feasible /\ Improves(results, s.min_energy)]

\* Lines 508-514: the candidate of one iteration, simulated and tested.
Candidate(m, in, s) ==
  CandidateOf(in, s,
              energyWithSetback(m, in.desired_temp, s.T_setback,
                                in.outdoor_temp, in.absence_duration))

\* Lines 506 and 514-518: the locals after the iteration on candidate c.
SearchAfter(in, s, c) ==
  LET next == SearchStep(in.desired_temp, in.outdoor_temp, s.T_setback)
  IN IF c.accepted
     THEN [s EXCEPT !.T_setback = next,
                    !.min_energy = c.results.E_total,
                    !.optimal_setback = c.T_setback,
                    !.optimal_results = <<c.results>>]
     ELSE [s EXCEPT !.T_setback = next]

\* Lines 504-519: one iteration of the search loop.
SearchIterate ==
  /\ pc = "search"
  /\ SearchContinues(inputs[1].desired_temp, inputs[1].outdoor_temp,
                     search[1].T_setback)
  /\ LET c == Candidate(energyModel[1], inputs[1], search[1])
     IN /\ search' = <<SearchAfter(inputs[1], search[1], c)>>
        /\ evaluated' = Append(evaluated, c)
  /\ UNCHANGED <<userInputs, pc, missing, inputs, altitude_ft, energyModel,
                 t_breakeven, optimal, recommendation, savings, steps,
                 optimizerCalls, suspended, call>>

\* Line 525: the savings margin, in percent.
MinSavingsPct == 5

\* savings_pct < MinSavingsPct, for the optimum in `s`.
BelowMargin(s) ==
  (s.E_maintain - s.optimal_results[1].E_total) * 100
    < MinSavingsPct * s.E_maintain

\* Line 538: restart_time = absence_hours - recovery_time - 0.25
RestartOffset(absence_hours, recovery_time) ==
  absence_hours - recovery_time - 25

\* Lines 521-547: the value findOptimalSetback returns.
SearchResult(s, T_desired, absence_hours) ==
  IF s.optimal_results = Null \/ BelowMargin(s)
  THEN [action |-> "MAINTAIN",
        setback_temp |-> T_desired,
        restart_time |-> Null,
        recovery_time |-> 0,
        energy_breakdown |-> Null,
        reason |-> IF s.optimal_results # Null
                      /\ s.E_maintain - s.optimal_results[1].E_total > 0
                      /\ BelowMargin(s)
                   THEN "Potential savings too small to justify setback"
                   ELSE "Absence duration too short for beneficial setback"]
  ELSE [action |-> "SETBACK",
        setback_temp |-> s.optimal_setback,
        restart_time |->
          <<RestartOffset(absence_hours, s.optimal_results[1].recovery_time)>>,
        recovery_time |-> s.optimal_results[1].recovery_time,
        energy_breakdown |-> s.optimal_results,
        savings_percentage |->
          ((s.E_maintain - s.optimal_results[1].E_total) * 100)
            \div s.E_maintain]

\* The search loop ends and findOptimalSetback returns.
SearchReturn ==
  /\ pc = "search"
  /\ ~SearchContinues(inputs[1].desired_temp, inputs[1].outdoor_temp,
                      search[1].T_setback)
  /\ optimal' = <<SearchResult(search[1], inputs[1].desired_temp,
                               inputs[1].absence_duration)>>
  /\ search' = Null
  /\ pc' = "recommend"
  /\ UNCHANGED <<userInputs, missing, inputs, altitude_ft, energyModel,
                 t_breakeven, recommendation, savings, steps, optimizerCalls,
                 evaluated, suspended, call>>

\* Line 637: inputs.absence_start_time || '8:00 AM'.
StartTimeOf(in) ==
  IF "absence_start_time" \in DOMAIN in THEN in.absence_start_time
  ELSE [hours |-> 8, minutes |-> 0, period |-> "AM"]

\* Line 788: timeStr.split(' ') exists for a string only.  A value that is
\* not a string (the number 830, say) is the record [number |-> 830], and
\* parseTime throws a TypeError on it.
IsClockString(timeStr) == "period" \in DOMAIN timeStr

\* Lines 636-638: the SETBACK branch parses the start time and throws when
\* it is not a string; the MAINTAIN branch never reads it.
RecommendThrows(in, opt) ==
  opt.action = "SETBACK" /\ ~IsClockString(StartTimeOf(in))

\* Lines 625-654: the recommendation made of the optimizer's answer.
\* recovery_time is the toFixed(1) figure in tenths of an hour.
RecommendationOf(in, opt) ==
  IF opt.action = "MAINTAIN"
  THEN MaintainRecommendation(in, opt.reason)
  ELSE LET absence_start == parseTime(StartTimeOf(in))
           restart_clock == addHours(absence_start, 6 * opt.restart_time[1])
           return_clock == addHours(absence_start, 6 * in.absence_duration)
       IN [action |-> "SETBACK",
           temperature |-> in.desired_temp,
           setback_temp |-> ((opt.setback_temp + 50) \div 100) * 100,
           restart_clock |-> restart_clock,
           restart_time |-> <<formatTime(restart_clock)>>,
           return_time |-> <<formatTime(return_clock)>>,
           recovery_time |-> (opt.recovery_time + 5) \div 10,
           energy_breakdown |-> opt.energy_breakdown,
           savings_percentage |-> opt.savings_percentage]

\* Lines 625-654: turn the optimizer's answer into the recommendation.
Recommend ==
  /\ pc = "recommend"
  /\ IF RecommendThrows(inputs[1], optimal[1])
     THEN pc' = "threw" /\ UNCHANGED recommendation
     ELSE /\ recommendation' = <<RecommendationOf(inputs[1], optimal[1])>>
          /\ pc' = "savings"
  /\ UNCHANGED <<userInputs, missing, inputs, altitude_ft, energyModel,
                 t_breakeven, search, optimal, savings, steps, optimizerCalls,
                 evaluated, suspended, call>>

\* A savings breakdown that reports the baseline cost as the cost saved.
SavingsOfBaseline(in, m, rec) ==
  LET cost == ((energyToMaintain(m, in.desired_temp, in.outdoor_temp,
                                 in.absence_duration) \div 100)
               * getElectricityRate(in)) \div 1000
  IN [action |-> IF rec.action = "MAINTAIN" THEN "no_setback" ELSE "setback",
      energy_saved_kwh |-> 0,
      cost_saved_per_occurrence |-> cost,
      cost_saved_monthly |-> (cost * in.days_per_week * 433) \div 100,
      cost_saved_annual |->
        (cost * in.days_per_week * in.weeks_per_year + 5000) \div 10000,
      percent_saved |-> 0]

\* Lines 657-701: the savings breakdown.  Energies in watt-centi-hours,
\* costs in 1e-4 $, cost_saved_annual in whole dollars (Math.round),
\* percent_saved in tenths of a percent.
SavingsOf(in, m, rec) ==
  LET electricity_rate == getElectricityRate(in)
      E_maintain == energyToMaintain(m, in.desired_temp, in.outdoor_temp,
                                     in.absence_duration)
  IN IF rec.action = "MAINTAIN"
     THEN [action |-> "no_setback",
           energy_saved_kwh |-> 0,
           cost_saved_per_occurrence |-> 0,
           cost_saved_monthly |-> 0,
           cost_saved_annual |-> 0,
           percent_saved |-> 0]
     ELSE LET E_saved == Max(0, E_maintain - rec.energy_breakdown[1].E_total)
              cost_saved == ((E_saved \div 100) * electricity_rate) \div 1000
              cost_saved_monthly ==
                (cost_saved * in.days_per_week * 433) \div 100
              cost_saved_annual ==
                cost_saved * in.days_per_week * in.weeks_per_year
          IN [action |-> "setback",
              energy_saved_kwh |-> E_saved,
              cost_saved_per_occurrence |-> cost_saved,
              cost_saved_monthly |-> cost_saved_monthly,
              cost_saved_annual |-> (cost_saved_annual + 5000) \div 10000,
              percent_saved |-> (E_saved * 1000) \div E_maintain]

\* Lines 504-519: the whole search loop, from the locals s.
RECURSIVE SearchLoop(_, _, _)
SearchLoop(m, in, s) ==
  IF SearchContinues(in.desired_temp, in.outdoor_temp, s.T_setback)
  THEN SearchLoop(m, in, SearchAfter(in, s, Candidate(m, in, s)))
  ELSE s

\* Lines 482-548: findOptimalSetback.
findOptimalSetback(m, in) ==
  SearchResult(SearchLoop(m, in, StartSearch(m, in)), in.desired_temp,
               in.absence_duration)

\* Lines 555-724: what analyzeThermalStrategy throws or returns when it runs
\* from its first line to its last without another analysis in between.
analyzeThermalStrategy(request) ==
  IF Len(MissingFields(request)) > 0
  THEN [threw |-> TRUE, missing |-> MissingFields(request)]
  ELSE LET in == request @@ Defaults
           m == NewEnergyModel(in, getAltitudeFromZip(in.zip_code))
           below == BelowBreakEven(in.absence_duration, m.tau)
           rec == IF below
                  THEN MaintainRecommendation(in,
                         "Absence duration less than break-even threshold")
                  ELSE RecommendationOf(in, findOptimalSetback(m, in))
       IN IF ~below /\ RecommendThrows(in, findOptimalSetback(m, in))
          THEN [threw |-> TRUE, missing |-> <<>>]
          ELSE [threw |-> FALSE, recommendation |-> rec,
                savings |-> SavingsOf(in, m, rec), tau |-> m.tau]

CalculateSavings ==
  /\ pc = "savings"
  /\ savings' = <<SavingsOf(inputs[1], energyModel[1], recommendation[1])>>
  /\ steps' = Append(steps, "savings")
  /\ pc' = "returned"
  /\ UNCHANGED <<userInputs, missing, inputs, altitude_ft, energyModel,
                 t_breakeven, search, optimal, recommendation, optimizerCalls,
                 evaluated, suspended, call>>

Next ==
  \/ Validate
  \/ SetDefaults
  \/ LookupAltitude
  \/ BuildModels
  \/ BreakEven
  \/ SearchIterate
  \/ SearchReturn
  \/ Recommend
  \/ CalculateSavings

Spec == Init /\ [][Next]_vars

(***************************************************************************)
(* Two analyses in flight.  analyzeThermalStrategy is an async function:   *)
(* it runs without interruption up to its await (line 584) and from there  *)
(* to its end, so another analysis runs only while this one is parked at   *)
(* the await or has finished.  Every name the function assigns is a local  *)
(* of the call; `suspended` holds the locals of the analysis not running.  *)
(***************************************************************************)
Fresh(request) ==
  [userInputs |-> request, pc |-> "validate", missing |-> <<>>,
   inputs |-> Null, altitude_ft |-> Null, energyModel |-> Null,
   t_breakeven |-> Null, search |-> Null, optimal |-> Null,
   recommendation |-> Null, savings |-> Null, steps |-> <<>>,
   optimizerCalls |-> 0, evaluated |-> <<>>]

\* The requests of the two analyses: a SETBACK, the same in Denver, a
\* MAINTAIN below break-even and a request that is turned down.
PairRequests ==
  { FlawedBase,
    FlawedBase @@ [zip_code |-> <<8, 0, 2, 0, 2>>],
    [floor_area |-> 2000, ceiling_height |-> 8, desired_temp |-> 7000,
     outdoor_temp |-> 9000, absence_duration |-> 800],
    Without(FlawedBase, {"floor_area"}, {}) }

InitPair ==
  /\ userInputs \in PairRequests
  /\ pc = "validate"
  /\ missing = <<>>
  /\ inputs = Null
  /\ altitude_ft = Null
  /\ energyModel = Null
  /\ t_breakeven = Null
  /\ search = Null
  /\ optimal = Null
  /\ recommendation = Null
  /\ savings = Null
  /\ steps = <<>>
  /\ optimizerCalls = 0
  /\ evaluated = <<>>
  /\ suspended \in {<<Fresh(request)>> : request \in PairRequests}
  /\ call = Null

\* A switch that leaves `inputs` where it is, as if it were a variable of
\* the module and not of the call.
SwitchSharingInputs ==
  /\ suspended # Null
  /\ pc \in {"altitude", "threw", "returned"}
  /\ suspended[1].pc \notin {"threw", "returned"}
  /\ userInputs' = suspended[1].userInputs
  /\ pc' = suspended[1].pc
  /\ missing' = suspended[1].missing
  /\ altitude_ft' = suspended[1].altitude_ft
  /\ energyModel' = suspended[1].energyModel
  /\ t_breakeven' = suspended[1].t_breakeven
  /\ search' = suspended[1].search
  /\ optimal' = suspended[1].optimal
  /\ recommendation' = suspended[1].recommendation
  /\ savings' = suspended[1].savings
  /\ steps' = suspended[1].steps
  /\ optimizerCalls' = suspended[1].optimizerCalls
  /\ evaluated' = suspended[1].evaluated
  /\ suspended' =
       <<[userInputs |-> userInputs, pc |-> pc, missing |-> missing,
          inputs |-> inputs, altitude_ft |-> altitude_ft,
          energyModel |-> energyModel, t_breakeven |-> t_breakeven,
          search |-> search, optimal |-> optimal,
          recommendation |-> recommendation, savings |-> savings,
          steps |-> steps, optimizerCalls |-> optimizerCalls,
          evaluated |-> evaluated]>>
  /\ UNCHANGED <<inputs, call>>

\* Line 584 and the end of the function: the running analysis is parked at
\* its await or has finished, and the other one runs with its own locals.
Switch ==
  /\ suspended # Null
  /\ pc \in {"altitude", "threw", "returned"}
  /\ suspended[1].pc \notin {"threw", "returned"}
  /\ userInputs' = suspended[1].userInputs
  /\ pc' = suspended[1].pc
  /\ missing' = suspended[1].missing
  /\ inputs' = suspended[1].inputs
  /\ altitude_ft' = suspended[1].altitude_ft
  /\ energyModel' = suspended[1].energyModel
  /\ t_breakeven' = suspended[1].t_breakeven
  /\ search' = suspended[1].search
  /\ optimal' = suspended[1].optimal
  /\ recommendation' = suspended[1].recommendation
  /\ savings' = suspended[1].savings
  /\ steps' = suspended[1].steps
  /\ optimizerCalls' = suspended[1].optimizerCalls
  /\ evaluated' = suspended[1].evaluated
  /\ suspended' =
       <<[userInputs |-> userInputs, pc |-> pc, missing |-> missing,
          inputs |-> inputs, altitude_ft |-> altitude_ft,
          energyModel |-> energyModel, t_breakeven |-> t_breakeven,
          search |-> search, optimal |-> optimal,
          recommendation |-> recommendation, savings |-> savings,
          steps |-> steps, optimizerCalls |-> optimizerCalls,
          evaluated |-> evaluated]>>
  /\ UNCHANGED call

NextPair ==
  \/ Validate
  \/ SetDefaults
  \/ LookupAltitude
  \/ BuildModels
  \/ BreakEven
  \/ SearchIterate
  \/ SearchReturn
  \/ Recommend
  \/ CalculateSavings
  \/ Switch

SpecPair == InitPair /\ [][NextPair]_vars

(***************************************************************************)
(* The engine's functions called on their own.  `call` holds the function, *)
(* its arguments and, once it has returned, <<its value>>.                 *)
(***************************************************************************)
TimeConstants == {787, 1029, 7652}

\* getTimeToReachTemperature(T_initial, T_target, T_outdoor): outdoors equal
\* to, 0.05 F, 2 F and 20 F away from T_initial; targets on both sides.
TimeToReachCalls ==
  { [fn |-> "getTimeToReachTemperature",
     args |-> [tau |-> tau, T_initial |-> 7000, T_target |-> 7000 + g,
               T_outdoor |-> 7000 + o],
     elapsed |-> Null, ret |-> Null] :
      tau \in TimeConstants,
      g \in {-2100, -1900, -300, -100, -3, 0, 3, 100, 300, 1900, 2100},
      o \in {-2000, -200, -5, 0, 5, 200, 2000} }

\* getTemperatureAtTime(T_initial, T_outdoor, time_hours)
TemperatureAtCalls ==
  { [fn |-> "getTemperatureAtTime",
     args |-> [tau |-> tau, T_initial |-> 7000, T_outdoor |-> 7000 + o,
               time_hours |-> t],
     elapsed |-> Null, ret |-> Null] :
      tau \in TimeConstants, o \in {-2000, -200, -5, 5, 200, 2000},
      t \in {100, 500, 1000} }

\* new BuildingEnvelope(inputs) and new ThermalMassModel(inputs, envelope)
EnvelopeCalls ==
  { [fn |-> "BuildingEnvelope",
     args |-> [floor_area |-> fa, num_floors |-> nf,
               window_area_percent |-> wp, num_exterior_doors |-> nd,
               insulation_quality |-> iq] @@ Defaults,
     elapsed |-> Null, ret |-> Null] :
      fa \in {100, 2000}, nf \in {1, 2}, wp \in {0, 15, 40, 90},
      nd \in {0, 2}, iq \in {"average", "poor", "none"} }

\* getElectricityRate(inputs): each of the three rate fields absent, 0 or
\* positive (the monthly usage absent or positive).
RateCalls ==
  { [fn |-> "getElectricityRate",
     args |-> [f \in fields \cup {"floor_area", "zip_code"} |->
                 CASE f = "floor_area" -> fa
                   [] f = "zip_code" -> zip
                   [] f = "electricity_rate_manual" -> rate
                   [] f = "monthly_electric_bill" -> bill
                   [] f = "monthly_kwh_usage" -> 900],
     elapsed |-> Null, ret |-> Null] :
      fields \in SUBSET {"electricity_rate_manual", "monthly_electric_bill",
                         "monthly_kwh_usage"},
      fa \in {1000, 2000, 3000},
      zip \in {<<0, 2, 1, 3, 4>>, <<6, 0, 6, 0, 1>>},
      rate \in {0, 1500}, bill \in {15000} }

\* getAltitudeFromZip(zip_code)
AltitudeCalls ==
  { [fn |-> "getAltitudeFromZip", args |-> [zip_code |-> zip],
     elapsed |-> Null, ret |-> Null] :
      zip \in {<<8, 0, 2, 0, 2>>, <<8, 4, 1, 0, 1>>, <<8, 7, 1, 0, 1>>,
               <<3, 3, 1, 0, 1>>, <<9, 0, 2, 1, 0>>, <<9, 8, 1, 0, 1>>,
               <<0, 2, 1, 3, 4>>, <<1, 0, 0, 0, 1>>, <<7, 5, 2, 0, 1>>,
               <<3, 0, 3, 0, 3>>, <<8, 5, 0, 0, 1>>, <<6, 0, 6, 0, 1>>,
               <<3, 4, 1, 0, 1>>} }

Calls ==
  TimeToReachCalls \cup TemperatureAtCalls \cup EnvelopeCalls
  \cup RateCalls \cup AltitudeCalls

InitFn ==
  /\ userInputs = Null
  /\ pc = "idle"
  /\ missing = <<>>
  /\ inputs = Null
  /\ altitude_ft = Null
  /\ energyModel = Null
  /\ t_breakeven = Null
  /\ search = Null
  /\ optimal = Null
  /\ recommendation = Null
  /\ savings = Null
  /\ steps = <<>>
  /\ optimizerCalls = 0
  /\ evaluated = <<>>
  /\ suspended = Null
  /\ call \in Calls

locals == <<userInputs, pc, missing, inputs, altitude_ft, energyModel,
            t_breakeven, search, optimal, recommendation, savings, steps,
            optimizerCalls, evaluated, suspended>>

\* Lines 318-329.
TimeToReachReturns ==
  /\ call # Null /\ call.fn = "getTimeToReachTemperature" /\ call.ret = Null
  /\ call' = [call EXCEPT !.ret =
       <<getTimeToReachTemperature(call.args.tau, call.args.T_initial,
                                   call.args.T_target, call.args.T_outdoor)>>]
  /\ UNCHANGED locals

\* Lines 312-316.
TemperatureAtReturns ==
  /\ call # Null /\ call.fn = "getTemperatureAtTime" /\ call.ret = Null
  /\ call' = [call EXCEPT !.ret =
       <<getTemperatureAtTime(call.args.tau, call.args.T_initial,
                              call.args.T_outdoor, call.args.time_hours)>>]
  /\ UNCHANGED locals

\* The temperature getTemperatureAtTime returned for time_hours is made the
\* target of a call of getTimeToReachTemperature.
TimeToReachOfTemperatureAt ==
  /\ call # Null /\ call.fn = "getTemperatureAtTime" /\ call.ret # Null
  /\ call' = [fn |-> "getTimeToReachTemperature",
              args |-> [tau |-> call.args.tau,
                        T_initial |-> call.args.T_initial,
                        T_target |-> call.ret[1],
                        T_outdoor |-> call.args.T_outdoor],
              elapsed |-> <<call.args.time_hours>>, ret |-> Null]
  /\ UNCHANGED locals

\* Lines 120-123 and 275-281: the envelope, its effective U-factor and the
\* time constant of the thermal mass built on it.
EnvelopeReturns ==
  /\ call # Null /\ call.fn = "BuildingEnvelope" /\ call.ret = Null
  /\ call' = [call EXCEPT !.ret =
       <<[components |-> calculateComponents(call.args),
          effective_u_factor |->
            getEffectiveUFactor(calculateComponents(call.args)),
          tau |-> getTimeConstant(call.args,
                                  calculateComponents(call.args))]>>]
  /\ UNCHANGED locals

\* Lines 741-766.
RateReturns ==
  /\ call # Null /\ call.fn = "getElectricityRate" /\ call.ret = Null
  /\ call' = [call EXCEPT !.ret = <<getElectricityRate(call.args)>>]
  /\ UNCHANGED locals

\* Lines 730-739.
AltitudeReturns ==
  /\ call # Null /\ call.fn = "getAltitudeFromZip" /\ call.ret = Null
  /\ call' = [call EXCEPT !.ret = <<getAltitudeFromZip(call.args.zip_code)>>]
  /\ UNCHANGED locals

NextFn ==
  \/ TimeToReachReturns
  \/ TemperatureAtReturns
  \/ TimeToReachOfTemperatureAt
  \/ EnvelopeReturns
  \/ RateReturns
  \/ AltitudeReturns

SpecFn == InitFn /\ [][NextFn]_vars

(***************************************************************************)
(* The analysis with energyWithSetback run step by step.  While a          *)
(* candidate is simulated, `call` holds the call and `frame`, the locals   *)
(* of energyWithSetback: the loop variable t, the sums of the powers of    *)
(* the two loops and the phase the simulation is `at`.                     *)
(***************************************************************************)
MaxLoopTime == 3000

\* absenceDuration: 1e400 in the body of a request is the number Infinity
\* once parsed; the studio on a day 4 F warmer than desired.
LongRequest ==
  [FlawedBase EXCEPT !.outdoor_temp = 7400, !.absence_duration = Infinity]

SimRequests ==
  { FlawedBase,
    [FlawedBase EXCEPT !.outdoor_temp = 7400],
    [FlawedBase EXCEPT !.outdoor_temp = 9000],
    WorkdayRequest,
    Without(FlawedBase, {"floor_area"}, {}),
    LongRequest }

InitSim ==
  /\ userInputs \in SimRequests
  /\ pc = "validate"
  /\ missing = <<>>
  /\ inputs = Null
  /\ altitude_ft = Null
  /\ energyModel = Null
  /\ t_breakeven = Null
  /\ search = Null
  /\ optimal = Null
  /\ recommendation = Null
  /\ savings = Null
  /\ steps = <<>>
  /\ optimizerCalls = 0
  /\ evaluated = <<>>
  /\ suspended = Null
  /\ call = Null

\* Lines 508 and 403-426: the loop of findOptimalSetback calls
\* energyWithSetback, which takes the natural drift or enters the loop of
\* phase 1.
SimBegin ==
  /\ pc = "search" /\ call = Null
  /\ SearchContinues(inputs[1].desired_temp, inputs[1].outdoor_temp,
                     search[1].T_setback)
  /\ LET m == energyModel[1]
         a == [T_desired |-> inputs[1].desired_temp,
               T_setback |-> search[1].T_setback,
               T_outdoor |-> inputs[1].outdoor_temp,
               absence_hours |-> inputs[1].absence_duration]
         natural_drift_time ==
           getTimeToReachTemperature(m.tau, a.T_desired, a.T_setback,
                                     a.T_outdoor)
         use_natural == 10 * natural_drift_time < 4 * a.absence_hours
     IN call' =
          [fn |-> "energyWithSetback", args |-> a, elapsed |-> Null,
           ret |-> Null,
           frame |->
             [at |-> IF use_natural THEN "hold" ELSE "drift",
              t |-> 0,
              drift_time |->
                IF use_natural
                THEN Min(natural_drift_time, (a.absence_hours * 4) \div 10)
                ELSE 0,
              max_drift |-> Min(m.tau * 2, (a.absence_hours * 3) \div 10),
              sumP |-> 0, sumR |-> 0, recovery_time |-> 0,
              time_at_setback |-> 0, E_maintain_setback |-> 0,
              actual_recovery_time |-> 0]]
  /\ UNCHANGED locals

\* Lines 428-442: one iteration of the loop of phase 1.
SimDriftStep ==
  /\ call # Null /\ call.fn = "energyWithSetback"
  /\ call.frame.at = "drift" /\ call.frame.t < call.frame.max_drift
  /\ LET a == call.args
         f == call.frame
         T_t == getTemperatureAtTime(energyModel[1].tau, a.T_desired,
                                     a.T_outdoor, f.t)
     IN call' =
          IF ReachedSetback(a.T_outdoor > a.T_desired, T_t, a.T_setback)
          THEN [call EXCEPT !.frame.drift_time = f.t, !.frame.at = "drifted"]
          ELSE [call EXCEPT
                  !.frame.sumP = f.sumP
                                 + LoadPower(energyModel[1], T_t, a.T_outdoor),
                  !.frame.t = f.t + dt]
  /\ UNCHANGED locals

\* Line 444: after the loop of phase 1, left by its test or by break.
SimDriftEnd ==
  /\ call # Null /\ call.fn = "energyWithSetback"
  /\ \/ call.frame.at = "drifted"
     \/ call.frame.at = "drift" /\ ~(call.frame.t < call.frame.max_drift)
  /\ call' = [call EXCEPT
                !.frame.drift_time = IF call.frame.drift_time = 0
                                     THEN call.frame.max_drift
                                     ELSE call.frame.drift_time,
                !.frame.at = "hold"]
  /\ UNCHANGED locals

\* Lines 447-461: phase 2 and the bound of the loop of phase 3.
SimHold ==
  /\ call # Null /\ call.fn = "energyWithSetback" /\ call.frame.at = "hold"
  /\ LET a == call.args
         f == call.frame
         recovery_time ==
           getTimeToReachTemperature(energyModel[1].tau, a.T_setback,
                                     a.T_desired, a.T_outdoor)
         time_at_setback ==
           HoldTime(a.absence_hours, f.drift_time, recovery_time)
     IN call' =
          [call EXCEPT
             !.frame.recovery_time = recovery_time,
             !.frame.time_at_setback = time_at_setback,
             !.frame.E_maintain_setback =
               energyToMaintain(energyModel[1], a.T_setback, a.T_outdoor,
                                time_at_setback),
             !.frame.actual_recovery_time =
               ActualRecoveryTime(recovery_time, a.absence_hours,
                                  f.drift_time),
             !.frame.t = 0,
             !.frame.at = "recovery"]
  /\ UNCHANGED locals

\* Lines 463-469: one iteration of the loop of phase 3.  Under the bound
\* Infinity the test t < actual_recovery_time is true of every t: t and the
\* sum are then followed up to MaxLoopTime, and of the iterations beyond it
\* only that they go on (t alternates between two values).
SimRecoveryStep ==
  /\ call # Null /\ call.fn = "energyWithSetback"
  /\ call.frame.at = "recovery"
  /\ call.frame.t < call.frame.actual_recovery_time
  /\ LET a == call.args
         f == call.frame
         T_t == getTemperatureAtTime(energyModel[1].tau, a.T_setback,
                                     a.T_desired, f.t)
     IN call' =
          IF f.actual_recovery_time = Infinity /\ f.t >= MaxLoopTime
          THEN [call EXCEPT
                  !.frame.t = IF f.t = MaxLoopTime THEN MaxLoopTime + dt
                              ELSE MaxLoopTime]
          ELSE [call EXCEPT
                  !.frame.sumR = f.sumR
                                 + LoadPower(energyModel[1], T_t, a.T_outdoor),
                  !.frame.t = f.t + dt]
  /\ UNCHANGED locals

\* Lines 471-479: the value energyWithSetback returns.
SimResults(f) ==
  [E_total |-> (f.sumP * dt) \div 100 + f.E_maintain_setback
               + (f.sumR * dt) \div 100,
   E_cooldown |-> (f.sumP * dt) \div 100,
   E_maintain_setback |-> f.E_maintain_setback,
   E_recovery |-> (f.sumR * dt) \div 100,
   time_at_setback |-> f.time_at_setback,
   recovery_time |-> f.actual_recovery_time,
   drift_time |-> f.drift_time]

\* Lines 471-479 and 510-518: energyWithSetback returns and the iteration of
\* the search loop goes on with its results.
SimReturn ==
  /\ call # Null /\ call.fn = "energyWithSetback"
  /\ call.frame.at = "recovery"
  /\ ~(call.frame.t < call.frame.actual_recovery_time)
  /\ LET c == CandidateOf(inputs[1], search[1], SimResults(call.frame))
     IN /\ search' = <<SearchAfter(inputs[1], search[1], c)>>
        /\ evaluated' = Append(evaluated, c)
  /\ call' = Null
  /\ UNCHANGED <<userInputs, pc, missing, inputs, altitude_ft, energyModel,
                 t_breakeven, optimal, recommendation, savings, steps,
                 optimizerCalls, suspended>>

NextSim ==
  \/ Validate
  \/ SetDefaults
  \/ LookupAltitude
  \/ BuildModels
  \/ BreakEven
  \/ SimBegin
  \/ SimDriftStep
  \/ SimDriftEnd
  \/ SimHold
  \/ SimRecoveryStep
  \/ SimReturn
  \/ SearchReturn
  \/ Recommend
  \/ CalculateSavings

SpecSim == InitSim /\ [][NextSim]_vars

\* Node runs an analysis to its end once it has started it: the next step
\* of the analysis is taken whenever there is one.
SpecSimFair == SpecSim /\ WF_vars(NextSim)

(***************************************************************************)
(* POST /api/calculate: the route (src/routes/calculate.js), the           *)
(* controller, the HVAC service with its mapping of the form to the        *)
(* engine's inputs, the engine, the rebate eligibility and the error       *)
(* middleware.  Numbers of the form are written in the engine's units      *)
(* (85 F = 8500, 8 h = 800, 0.12 $/kWh = 1200).  The four required fields  *)
(* carry their JavaScript type:                                            *)
(*   [type |-> "number", n |-> 8500]            the number 85              *)
(*   [type |-> "NaN"]                           the number NaN             *)
(*   [type |-> "null"]                          null                       *)
(*   [type |-> "string", kind |-> k, n |-> v]   a string: k is "empty"     *)
(*       (''), "blank" ('  '), "numeric" (Number(value) = v) or "other"    *)
(* and a field that is undefined is not in the record.                     *)
(***************************************************************************)
Num(n) == [type |-> "number", n |-> n]

requiredFields == <<"outdoorTemp", "desiredTemp", "absenceDuration",
                    "floorArea">>

\* The form of test-api.js (sampleFormData): a 2000 ft2 house left for
\* eight hours.
sampleFormData ==
  [zipCode |-> <<0, 2, 1, 3, 4>>, outdoorTemp |-> Num(8500),
   desiredTemp |-> Num(7200), absenceDuration |-> Num(800),
   floorArea |-> Num(2000), insulationQuality |-> "average",
   constructionType |-> "wood_frame", constructionEra |-> "2000_2010",
   utilityRate |-> 1200, windowAreaPercent |-> 15, numExteriorDoors |-> 2,
   ceilingHeight |-> 8,
   absenceStartTime |-> [hours |-> 8, minutes |-> 0, period |-> "AM"],
   absenceEndTime |-> [hours |-> 5, minutes |-> 0, period |-> "PM"]]

\* The leaky studio left for 26 hours: the optimizer recommends a setback.
studioFormData ==
  [zipCode |-> <<0, 2, 1, 3, 4>>, outdoorTemp |-> Num(6850),
   desiredTemp |-> Num(7000), absenceDuration |-> Num(2600),
   floorArea |-> Num(100), insulationQuality |-> "poor",
   constructionEra |-> "before_1980", windowType |-> "single_pane",
   windowAreaPercent |-> 40]

\* The studio's form with the start time sent as the number 830.
numericStartFormData ==
  studioFormData @@ [absenceStartTime |-> [number |-> 830]]

\* The form's fields that only the rebate eligibility reads.
RebateOnly == {"equipmentSelected", "equipmentMeetsEfficiency", "ownsHome",
               "primaryResidence", "propertyType"}

RebateAnswers ==
  { [equipmentSelected |-> <<"heat_pump">>,
     equipmentMeetsEfficiency |-> "yes", ownsHome |-> TRUE,
     primaryResidence |-> TRUE, propertyType |-> "single_family"],
    [equipmentSelected |-> <<"furnace", "weatherization">>,
     equipmentMeetsEfficiency |-> "no", ownsHome |-> FALSE,
     primaryResidence |-> FALSE, propertyType |-> "condo"],
    [equipmentSelected |-> <<"solar_panels">>,
     equipmentMeetsEfficiency |-> "not_sure", ownsHome |-> TRUE,
     primaryResidence |-> FALSE, propertyType |-> "apartment"] }

\* The room data of a request.  sampleRoomData is the scan of test-api.js
\* as the route documents it (dimensions, surfaces, openings: a room of
\* 25 x 20 ft, 9 ft high, one door, windows 4.94 % of the walls);
\* processedRoomData is what roomProcessingService.processRoomScan makes of
\* that scan; emptyProcessedRoomData is what it makes of a scan without
\* dimensions and openings.  The window percentage is in whole percent.
sampleRoomData ==
  [dimensions |-> [width |-> 25, height |-> 9, depth |-> 20],
   openings |-> [doors |-> 1, windowAreaPercent |-> 5]]

processedRoomData ==
  [processedDimensions |-> [floorArea |-> 500, height |-> 9],
   windowAreaPercent |-> 5, openingCount |-> [doors |-> 1]]

emptyProcessedRoomData ==
  [processedDimensions |-> [floorArea |-> 0, height |-> 0],
   windowAreaPercent |-> 0, openingCount |-> [doors |-> 0]]

\* What a client can put in a required field in place of a non-zero number.
FieldValues ==
  { [type |-> "null"], [type |-> "NaN"], Num(0),
    [type |-> "string", kind |-> "numeric", n |-> 0],
    [type |-> "string", kind |-> "numeric", n |-> 7500],
    [type |-> "string", kind |-> "empty", n |-> 0],
    [type |-> "string", kind |-> "blank", n |-> 0],
    [type |-> "string", kind |-> "other", n |-> 0] }

FormDatas ==
  {sampleFormData, studioFormData, numericStartFormData}
  \cup { f @@ r : f \in {sampleFormData, studioFormData}, r \in RebateAnswers }
  \cup { [sampleFormData EXCEPT ![field] = v] :
           field \in {requiredFields[i] : i \in 1..4}, v \in FieldValues }
  \cup { [field \in (DOMAIN sampleFormData) \ {absent} |->
            sampleFormData[field]] :
           absent \in {requiredFields[i] : i \in 1..4} }

\* The bodies of the requests: formData and roomData, either may be absent.
ApiBodies ==
  { [formData |-> f] : f \in FormDatas }
  \cup { [formData |-> f, roomData |-> r] :
           f \in {sampleFormData, studioFormData}
                 \cup { studioFormData @@ a : a \in RebateAnswers },
           r \in {sampleRoomData, processedRoomData,
                  emptyProcessedRoomData} }
  \cup { [roomData |-> sampleRoomData] }

\* calculate.js lines 70-84: a required field is missing when it is
\* undefined, null, '', NaN, or a string that is blank or not a number.
RouteMissing(formData, field) ==
  \/ field \notin DOMAIN formData
  \/ formData[field].type \in {"null", "NaN"}
  \/ /\ formData[field].type = "string"
     /\ formData[field].kind # "numeric"

RouteMissingFields(formData) ==
  SelectSeq(requiredFields, LAMBDA field : RouteMissing(formData, field))

\* calculate.js lines 97-103: numeric strings become numbers.
ConvertStrings(formData) ==
  [field \in DOMAIN formData |->
     IF field \in {requiredFields[i] : i \in 1..4}
        /\ formData[field].type = "string"
     THEN Num(formData[field].n)
     ELSE formData[field]]

\* !formData[field]: undefined, null, NaN, 0 and '' are falsy.
Falsy(formData, field) ==
  \/ field \notin DOMAIN formData
  \/ formData[field].type \in {"null", "NaN"}
  \/ formData[field].type = "number" /\ formData[field].n = 0
  \/ formData[field].type = "string" /\ formData[field].kind = "empty"

\* The controller, lines 19-23: requiredFields.filter(field =>
\* !formData[field]).
ControllerMissingFields(formData) ==
  SelectSeq(requiredFields, LAMBDA field : Falsy(formData, field))

\* The object {}.
EmptyObject == [field \in {} |-> 0]

\* A destructuring default: the default replaces undefined only.
OrDefault(obj, field, default) ==
  IF field \in DOMAIN obj THEN obj[field] ELSE default

\* x || y for numbers.
Or(x, y) == IF x = 0 THEN y ELSE x

\* roomData?.a?.b: 0 (falsy) when a link of the chain is missing.
Chain(roomData, a, b) ==
  IF a \in DOMAIN roomData /\ b \in DOMAIN roomData[a]
  THEN roomData[a][b] ELSE 0

\* Service lines 233-255: the form's fields with their defaults.
WithFormDefaults(formData) ==
  [zipCode |-> OrDefault(formData, "zipCode", <<0, 2, 1, 3, 4>>),
   outdoorTemp |-> OrDefault(formData, "outdoorTemp", Num(8500)).n,
   desiredTemp |-> OrDefault(formData, "desiredTemp", Num(7200)).n,
   absenceDuration |-> OrDefault(formData, "absenceDuration", Num(800)).n,
   floorArea |-> OrDefault(formData, "floorArea", Num(2000)).n,
   insulationQuality |-> OrDefault(formData, "insulationQuality", "average"),
   constructionType |->
     OrDefault(formData, "constructionType", "wood_frame"),
   constructionEra |-> OrDefault(formData, "constructionEra", "2000_2010"),
   utilityRate |-> OrDefault(formData, "utilityRate", 1200),
   absenceStartTime |->
     OrDefault(formData, "absenceStartTime",
               [hours |-> 8, minutes |-> 0, period |-> "AM"]),
   absenceEndTime |->
     OrDefault(formData, "absenceEndTime",
               [hours |-> 5, minutes |-> 0, period |-> "PM"]),
   humidity |-> OrDefault(formData, "humidity", 50),
   seerRating |-> OrDefault(formData, "seerRating", 14),
   windowType |-> OrDefault(formData, "windowType", "double_pane"),
   windowAreaPercent |-> OrDefault(formData, "windowAreaPercent", 15),
   numExteriorDoors |-> OrDefault(formData, "numExteriorDoors", 2),
   ceilingHeight |-> OrDefault(formData, "ceilingHeight", 8),
   numFloors |-> OrDefault(formData, "numFloors", 1),
   monthlyElectricBill |-> OrDefault(formData, "monthlyElectricBill", 0),
   monthlyKwhUsage |-> OrDefault(formData, "monthlyKwhUsage", 0)]

\* Service lines 333-339: windowTypeMap[windowType] || 'double_pane'.
windowTypeMap(windowType) ==
  CASE windowType \in {"single_pane", "double_pane", "triple_pane",
                       "low_e_double"} -> windowType
    [] windowType = "low_e" -> "low_e_double"
    [] OTHER -> "double_pane"

\* A mapping that takes the seasonal efficiency from the rebate answers.
mapFormDataToASHRAEInputsByRebate(formData, roomData) ==
  LET f == WithFormDefaults(formData)
  IN [zip_code |-> f.zipCode,
      floor_area |->
        Or(Chain(roomData, "processedDimensions", "floorArea"), f.floorArea),
      ceiling_height |->
        Or(Chain(roomData, "processedDimensions", "height"),
           Or(f.ceilingHeight, 8)),
      num_floors |-> Or(f.numFloors, 1),
      construction_type |-> f.constructionType,
      construction_era |-> f.constructionEra,
      insulation_quality |-> f.insulationQuality,
      window_type |-> windowTypeMap(f.windowType),
      window_area_percent |->
        Or(OrDefault(roomData, "windowAreaPercent", 0),
           Or(f.windowAreaPercent, 15)),
      num_exterior_doors |->
        IF "openingCount" \in DOMAIN roomData
           /\ "doors" \in DOMAIN roomData.openingCount
        THEN roomData.openingCount.doors
        ELSE Or(f.numExteriorDoors, 2),
      hvac_type |-> "central_ac",
      hvac_age |-> "10_15",
      seer_rating |->
        IF OrDefault(formData, "equipmentMeetsEfficiency", "no") = "yes"
        THEN 18 ELSE Or(f.seerRating, 14),
      desired_temp |-> f.desiredTemp,
      outdoor_temp |-> f.outdoorTemp,
      humidity |-> Or(f.humidity, 50),
      absence_duration |-> f.absenceDuration,
      absence_start_time |-> f.absenceStartTime,
      days_per_week |-> 5,
      weeks_per_year |-> 52,
      electricity_rate_manual |-> f.utilityRate,
      monthly_electric_bill |-> f.monthlyElectricBill,
      monthly_kwh_usage |-> f.monthlyKwhUsage]

\* Service lines 307-390: mapFormDataToASHRAEInputs.  The scan's values are
\* read from roomData.processedDimensions, roomData.windowAreaPercent and
\* roomData.openingCount.  null is written 0: the engine only tests the
\* bill and the usage for truthiness.
mapFormDataToASHRAEInputs(formData, roomData) ==
  LET f == WithFormDefaults(formData)
  IN [zip_code |-> f.zipCode,
      floor_area |->
        Or(Chain(roomData, "processedDimensions", "floorArea"), f.floorArea),
      ceiling_height |->
        Or(Chain(roomData, "processedDimensions", "height"),
           Or(f.ceilingHeight, 8)),
      num_floors |-> Or(f.numFloors, 1),
      construction_type |-> f.constructionType,
      construction_era |-> f.constructionEra,
      insulation_quality |-> f.insulationQuality,
      window_type |-> windowTypeMap(f.windowType),
      window_area_percent |->
        Or(OrDefault(roomData, "windowAreaPercent", 0),
           Or(f.windowAreaPercent, 15)),
      num_exterior_doors |->
        IF "openingCount" \in DOMAIN roomData
           /\ "doors" \in DOMAIN roomData.openingCount
        THEN roomData.openingCount.doors
        ELSE Or(f.numExteriorDoors, 2),
      hvac_type |-> "central_ac",
      hvac_age |-> "10_15",
      seer_rating |-> Or(f.seerRating, 14),
      desired_temp |-> f.desiredTemp,
      outdoor_temp |-> f.outdoorTemp,
      humidity |-> Or(f.humidity, 50),
      absence_duration |-> f.absenceDuration,
      absence_start_time |-> f.absenceStartTime,
      days_per_week |-> 5,
      weeks_per_year |-> 52,
      electricity_rate_manual |-> f.utilityRate,
      monthly_electric_bill |-> f.monthlyElectricBill,
      monthly_kwh_usage |-> f.monthlyKwhUsage]

\* Service lines 399-443: mapASHRAEResultsToAppFormat.  recoveryTime is in
\* minutes, the costs are the engine's toFixed(2) figures in cents, tau and
\* the break-even time (2.5 tau) its toFixed(2) figures in hundredths of an
\* hour, the times of a MAINTAIN answer are the form's absenceEndTime.
mapASHRAEResultsToAppFormat(in, tau, rec, sav, absenceEndTime) ==
  [breakEvenTime |-> (25 * tau + 5) \div 10] @@
  [action |-> rec.action,
   setbackTemp |-> Or(rec.setback_temp, in.desired_temp),
   desiredTemp |-> in.desired_temp,
   outdoorTemp |-> Or(in.outdoor_temp, 8500),
   restartTime |-> IF rec.restart_time = Null THEN absenceEndTime
                   ELSE rec.restart_time[1],
   returnTime |-> IF rec.action = "SETBACK" THEN rec.return_time[1]
                  ELSE absenceEndTime,
   recoveryTime |-> rec.recovery_time * 6,
   thermalTimeConstant |-> (tau + 5) \div 10,
   savingsPerDay |-> (sav.cost_saved_per_occurrence + 50) \div 100,
   savingsPerMonth |-> (sav.cost_saved_monthly + 50) \div 100,
   savingsPerYear |-> sav.cost_saved_annual,
   energySavedKwh |-> sav.energy_saved_kwh,
   percentSaved |-> sav.percent_saved]

\* The fields of a result that mapASHRAEResultsToAppFormat wrote.
ThermalFields ==
  {"action", "setbackTemp", "desiredTemp", "outdoorTemp", "restartTime",
   "breakEvenTime",
   "returnTime", "recoveryTime", "thermalTimeConstant", "savingsPerDay",
   "savingsPerMonth", "savingsPerYear", "energySavedKwh", "percentSaved"}

\* rebateEligibilityService lines 12-33: getStateFromZip, "" for null.
getStateFromZip(zipCode) ==
  LET prefix == 10 * zipCode[1] + zipCode[2]
  IN CASE prefix >= 1 /\ prefix <= 2 -> "MA"
       [] prefix >= 3 /\ prefix <= 14 -> "NY"
       [] prefix >= 15 /\ prefix <= 19 -> "PA"
       [] prefix >= 20 /\ prefix <= 22 -> "VA"
       [] prefix >= 30 /\ prefix <= 31 -> "GA"
       [] prefix >= 32 /\ prefix <= 34 -> "FL"
       [] prefix >= 60 /\ prefix <= 62 -> "IL"
       [] prefix >= 75 /\ prefix <= 79 -> "TX"
       [] prefix >= 80 /\ prefix <= 81 -> "CO"
       [] prefix >= 85 /\ prefix <= 86 -> "AZ"
       [] prefix >= 90 /\ prefix <= 96 -> "CA"
       [] prefix = 97 -> "OR"
       [] prefix >= 98 /\ prefix <= 99 -> "WA"
       [] OTHER -> ""

\* rebateEligibilityService lines 38-74: the states with a rebate program.
ELIGIBLE_STATES == {"MA", "NY", "CA", "TX", "FL", "WA", "OR"}

\* rebateEligibilityService lines 82-114.
qualifiesForFederalRebate(equipmentSelected, equipmentMeetsEfficiency) ==
  /\ \E i \in 1..Len(equipmentSelected) :
       equipmentSelected[i] \in {"heat_pump", "heat_pump_water_heater",
                                 "central_ac", "furnace", "weatherization"}
  /\ equipmentMeetsEfficiency # "no"

\* rebateEligibilityService lines 121-206, without the reasons' texts.
calculateRebateEligibility(formData) ==
  LET state == IF "zipCode" \in DOMAIN formData
               THEN getStateFromZip(formData.zipCode) ELSE ""
  IN [federalEligibility |->
        qualifiesForFederalRebate(
          OrDefault(formData, "equipmentSelected", <<>>),
          OrDefault(formData, "equipmentMeetsEfficiency", "undefined")),
      stateEligibility |-> state \in ELIGIBLE_STATES,
      state |-> IF state = "" THEN "Unknown" ELSE state]

\* The error handler of the application: err.status || 500 with
\* err.message; `fields` are the fields the message names.
ErrorResponse(message, fields) ==
  [status |-> 500, success |-> FALSE, message |-> message, fields |-> fields]

\* While the request is handled, `call` holds the request, `frame` the
\* layer it is `at`, the form as the route left it, the eligibility once it
\* is computed, and `ret` the response once it is sent.
ApiCall(body) ==
  [fn |-> "POST /api/calculate", args |-> body, elapsed |-> Null,
   ret |-> Null,
   frame |-> [at |-> "route", formData |-> Null, roomData |-> Null,
              eligibility |-> Null]]

InitApi ==
  /\ userInputs = Null
  /\ pc = "idle"
  /\ missing = <<>>
  /\ inputs = Null
  /\ altitude_ft = Null
  /\ energyModel = Null
  /\ t_breakeven = Null
  /\ search = Null
  /\ optimal = Null
  /\ recommendation = Null
  /\ savings = Null
  /\ steps = <<>>
  /\ optimizerCalls = 0
  /\ evaluated = <<>>
  /\ suspended = Null
  /\ call \in {ApiCall(body) : body \in ApiBodies}

\* calculate.js lines 56-105: the route rejects a body without formData and
\* a form with missing fields with status 400, converts numeric strings and
\* calls the controller with `roomData || {}`.
ApiRoute ==
  /\ call.fn = "POST /api/calculate" /\ call.frame.at = "route"
  /\ call' =
       IF "formData" \notin DOMAIN call.args
       THEN [call EXCEPT
               !.ret = <<[status |-> 400, success |-> FALSE,
                          message |-> "formData is required",
                          fields |-> <<>>]>>,
               !.frame.at = "done"]
       ELSE IF Len(RouteMissingFields(call.args.formData)) > 0
       THEN [call EXCEPT
               !.ret = <<[status |-> 400, success |-> FALSE,
                          message |-> "Missing required fields",
                          fields |->
                            RouteMissingFields(call.args.formData)]>>,
               !.frame.at = "done"]
       ELSE [call EXCEPT
               !.frame.formData = <<ConvertStrings(call.args.formData)>>,
               !.frame.roomData =
                 <<IF "roomData" \in DOMAIN call.args
                   THEN call.args.roomData ELSE EmptyObject>>,
               !.frame.at = "controller"]
  /\ UNCHANGED locals

\* The controller, lines 10-33: it throws when a required field is falsy;
\* the route's catch hands the error to the error handler (line 112).
ApiController ==
  /\ call.fn = "POST /api/calculate" /\ call.frame.at = "controller"
  /\ call' =
       IF Len(ControllerMissingFields(call.frame.formData[1])) > 0
       THEN [call EXCEPT
               !.ret = <<ErrorResponse(
                           "Missing required fields",
                           ControllerMissingFields(call.frame.formData[1]))>>,
               !.frame.at = "done"]
       ELSE [call EXCEPT !.frame.at = "service"]
  /\ UNCHANGED locals

\* Service lines 231-284: map the form and the room data to the engine's
\* inputs and call analyzeThermalStrategy.
ApiService ==
  /\ call.fn = "POST /api/calculate" /\ call.frame.at = "service"
  /\ userInputs' = mapFormDataToASHRAEInputs(call.frame.formData[1],
                                             call.frame.roomData[1])
  /\ pc' = "validate"
  /\ call' = [call EXCEPT !.frame.at = "engine"]
  /\ UNCHANGED <<missing, inputs, altitude_ft, energyModel, t_breakeven,
                 search, optimal, recommendation, savings, steps,
                 optimizerCalls, evaluated, suspended>>

\* Service lines 286-298 and calculate.js lines 108-111: the engine has
\* returned; its result is mapped, the eligibility computed and added, and
\* the result sent.
ApiServiceReturn ==
  /\ call.fn = "POST /api/calculate" /\ call.frame.at = "engine"
  /\ pc = "returned"
  /\ LET result ==
           mapASHRAEResultsToAppFormat(
             inputs[1], energyModel[1].tau, recommendation[1], savings[1],
             WithFormDefaults(call.frame.formData[1]).absenceEndTime)
         eligibility == calculateRebateEligibility(call.frame.formData[1])
     IN call' = [call EXCEPT
                   !.frame.eligibility = <<eligibility>>,
                   !.frame.at = "done",
                   !.ret = <<[status |-> 200, success |-> TRUE,
                              data |-> result
                                @@ [rebateEligibility |-> eligibility]]>>]
  /\ UNCHANGED locals

\* The engine has thrown: the error leaves the service at line 284 and the
\* controller, and the route's catch hands it to the error handler.
ApiEngineThrows ==
  /\ call.fn = "POST /api/calculate" /\ call.frame.at = "engine"
  /\ pc = "threw"
  /\ call' = [call EXCEPT
                !.ret = <<ErrorResponse(
                            IF Len(missing) > 0
                            THEN "Missing required fields"
                            ELSE "timeStr.split is not a function",
                            missing)>>,
                !.frame.at = "done"]
  /\ UNCHANGED locals

NextApi ==
  \/ ApiRoute
  \/ ApiController
  \/ ApiService
  \/ Validate
  \/ SetDefaults
  \/ LookupAltitude
  \/ BuildModels
  \/ BreakEven
  \/ SearchIterate
  \/ SearchReturn
  \/ Recommend
  \/ CalculateSavings
  \/ ApiServiceReturn
  \/ ApiEngineThrows

SpecApi == InitApi /\ [][NextApi]_vars

(***************************************************************************)
(* POST /api/matterport/extract-measurements and the Matterport service    *)
(* (src/unnamed/part_007).  A modelSid is [type |-> "string", text |-> t], *)
(* [type |-> "undefined"] or [type |-> "number"].  The body of the remote  *)
(* answer is [kind |-> "object"] with the fields it carries, [kind |->     *)
(* "null"] or [kind |-> "string"] (a page of HTML, say).                   *)
(***************************************************************************)
ModelSids ==
  { [type |-> "string", text |-> t] :
      t \in {"SxQL3iGyoDo", " SxQL3iGyoDo ", "no such/model", "", "  "} }
  \cup { [type |-> "undefined"], [type |-> "number"] }

\* !modelSid: undefined and '' are falsy; the number is a non-zero one.
NoModelSid(modelSid) ==
  modelSid.type = "undefined" \/ (modelSid.type = "string" /\ modelSid.text = "")

\* modelSid.trim() === '', for a string.
BlankSid(modelSid) == modelSid.text \in {"", "  "}

\* Lines 263-271: validateModelSid; the pattern /^[a-zA-Z0-9_-]+$/ is
\* tested on the trimmed text.
validateModelSid(modelSid) ==
  /\ ~NoModelSid(modelSid)
  /\ modelSid.type = "string"
  /\ modelSid.text \in {"SxQL3iGyoDo", " SxQL3iGyoDo "}

\* The bodies a remote answer of status 2xx can carry.
ModelDatas ==
  { [kind |-> "object", floor_area |-> 500, ceiling_height |-> 9,
     window_area |-> 50, door_count |-> 1, door_area |-> 21],
    [kind |-> "object",
     measurements |-> [floorArea |-> 800, ceilingHeight |-> 8,
                       doorCount |-> 0],
     openings |-> [isArray |-> TRUE, doors |-> 2]],
    [kind |-> "object",
     dimensions |-> [width |-> 25, height |-> 9, depth |-> 20]],
    [kind |-> "object", floor_area |-> 500,
     openings |-> [isArray |-> FALSE, doors |-> 0]],
    [kind |-> "object"],
    [kind |-> "string"],
    [kind |-> "null"] }

\* What axios.get settles with: a body, or an error (a status outside 2xx,
\* the timeout of 30 s, no connection).
RemoteOutcomes ==
  { [ok |-> TRUE, data |-> d] : d \in ModelDatas }
  \cup { [ok |-> FALSE, error |-> e] :
           e \in {"Request failed with status code 404",
                  "Request failed with status code 500",
                  "timeout of 30000ms exceeded", "ECONNREFUSED"} }

\* Lines 85-212: extractMeasurementsFromResponse throws a TypeError when it
\* reads a property of null (line 104) and when it reaches line 187 with
\* openings that have no filter method.
ExtractThrows(modelData) ==
  \/ modelData.kind = "null"
  \/ /\ OrDefault(modelData, "door_area", 0) = 0
     /\ OrDefault(modelData, "total_door_area", 0) = 0
     /\ Chain(modelData, "measurements", "totalDoorArea") = 0
     /\ Chain(modelData, "space", "totalDoorArea") = 0
     /\ "openings" \in DOMAIN modelData
     /\ ~modelData.openings.isArray

\* Lines 85-212: the measurements read from the body, 0 for null.
extractMeasurementsFromResponse(modelData) ==
  LET floorArea ==
        Or(OrDefault(modelData, "floor_area", 0),
           Or(Chain(modelData, "measurements", "floorArea"),
              Chain(modelData, "space", "floorArea")))
      ceilingHeight ==
        Or(OrDefault(modelData, "ceiling_height", 0),
           Or(Chain(modelData, "measurements", "ceilingHeight"),
              Chain(modelData, "space", "ceilingHeight")))
      windowArea ==
        Or(OrDefault(modelData, "window_area", 0),
           Chain(modelData, "measurements", "windowArea"))
      doorCount ==
        IF "door_count" \in DOMAIN modelData THEN <<modelData.door_count>>
        ELSE IF "measurements" \in DOMAIN modelData
                /\ "doorCount" \in DOMAIN modelData.measurements
        THEN <<modelData.measurements.doorCount>>
        ELSE Null
      dims ==
        IF "dimensions" \in DOMAIN modelData THEN <<modelData.dimensions>>
        ELSE IF "measurements" \in DOMAIN modelData
                /\ "dimensions" \in DOMAIN modelData.measurements
        THEN <<modelData.measurements.dimensions>>
        ELSE Null
      fromDims ==
        IF dims = Null THEN 0
        ELSE dims[1].width * dims[1].depth * dims[1].height
  IN [floorArea |-> floorArea,
      ceilingHeight |-> ceilingHeight,
      roomDimensions |-> dims,
      windowArea |-> windowArea,
      doorCount |-> doorCount,
      windowAreaPercent |->
        IF floorArea # 0 /\ windowArea # 0
        THEN (windowArea * 100) \div floorArea ELSE 0,
      roofArea |->
        Or(OrDefault(modelData, "roof_area", 0),
           Or(OrDefault(modelData, "ceiling_area", 0),
              Or(Chain(modelData, "measurements", "roofArea"),
                 Or(Chain(modelData, "space", "roofArea"), floorArea)))),
      totalDoorArea |->
        Or(OrDefault(modelData, "door_area", 0),
           Or(OrDefault(modelData, "total_door_area", 0),
              Or(Chain(modelData, "measurements", "totalDoorArea"),
                 Or(Chain(modelData, "space", "totalDoorArea"),
                    21 * Chain(modelData, "openings", "doors"))))),
      roomVolume |-> Or(fromDims, floorArea * ceilingHeight)]

\* Lines 224-255: getFallbackMeasurements.
getFallbackMeasurements(modelSid) ==
  [success |-> TRUE,
   data |-> [floorArea |-> 2000,
             ceilingHeight |-> 9,
             roomDimensions |->
               <<[width |-> 50, height |-> 9, depth |-> 40, length |-> 40]>>,
             windowArea |-> 300,
             doorCount |-> <<2>>,
             windowAreaPercent |-> 15,
             roofArea |-> 2000,
             totalDoorArea |-> 42,
             roomVolume |-> 18000,
             note |-> "These are example values."]]

\* A handler that reports the failure to its caller.
FailedMeasurements(modelSid) ==
  [success |-> FALSE, error |-> "Failed to extract measurements"]

\* Lines 56-61 and 71-76: what extractMeasurements returns from its two
\* catch blocks.
OnExtractError(modelSid) == getFallbackMeasurements(modelSid)

\* A request of the route, or a call of extractMeasurements by itself.
\* `frame` holds the position, the body received, the error caught and the
\* value extractMeasurements returned.
MatterportCalls ==
  { [fn |-> fn, args |-> [modelSid |-> sid], elapsed |-> Null, ret |-> Null,
     frame |-> [at |-> IF fn = "extractMeasurements" THEN "extract"
                       ELSE "route",
                modelData |-> Null, caught |-> Null, result |-> Null]] :
      fn \in {"POST /api/matterport/extract-measurements",
              "extractMeasurements"},
      sid \in ModelSids }

InitMatterport ==
  /\ userInputs = Null
  /\ pc = "idle"
  /\ missing = <<>>
  /\ inputs = Null
  /\ altitude_ft = Null
  /\ energyModel = Null
  /\ t_breakeven = Null
  /\ search = Null
  /\ optimal = Null
  /\ recommendation = Null
  /\ savings = Null
  /\ steps = <<>>
  /\ optimizerCalls = 0
  /\ evaluated = <<>>
  /\ suspended = Null
  /\ call \in MatterportCalls

\* matterport.js lines 28-50: the route rejects a missing and a malformed
\* modelSid with status 400 and calls extractMeasurements with the others.
MatterportRoute ==
  /\ call.fn = "POST /api/matterport/extract-measurements"
  /\ call.frame.at = "route"
  /\ call' =
       IF NoModelSid(call.args.modelSid)
       THEN [call EXCEPT !.ret = <<[status |-> 400,
                                    message |-> "Model SID is required"]>>,
                         !.frame.at = "done"]
       ELSE IF ~validateModelSid(call.args.modelSid)
       THEN [call EXCEPT !.ret = <<[status |-> 400,
                                    message |-> "Invalid Model SID format"]>>,
                         !.frame.at = "done"]
       ELSE [call EXCEPT !.frame.at = "extract"]
  /\ UNCHANGED locals

\* Lines 33-39: inside the try, a missing or blank modelSid throws `Model
\* SID is required`, and so does the call of trim on a modelSid that is not
\* a string.
ExtractBegin ==
  /\ call.fn \in {"POST /api/matterport/extract-measurements",
                  "extractMeasurements"}
  /\ call.frame.at = "extract"
  /\ call' =
       IF NoModelSid(call.args.modelSid)
       THEN [call EXCEPT !.frame.caught = <<"Model SID is required">>,
                         !.frame.at = "catch"]
       ELSE IF call.args.modelSid.type # "string"
       THEN [call EXCEPT
               !.frame.caught = <<"modelSid.trim is not a function">>,
               !.frame.at = "catch"]
       ELSE IF BlankSid(call.args.modelSid)
       THEN [call EXCEPT !.frame.caught = <<"Model SID is required">>,
                         !.frame.at = "catch"]
       ELSE [call EXCEPT !.frame.at = "remote"]
  /\ UNCHANGED locals

\* Lines 47-62: await axios.get.  The remote side settles the call with a
\* body or with an error, which the inner catch receives.
ExtractRemote ==
  /\ call.fn \in {"POST /api/matterport/extract-measurements",
                  "extractMeasurements"}
  /\ call.frame.at = "remote"
  /\ \E outcome \in RemoteOutcomes :
       call' =
         IF outcome.ok
         THEN [call EXCEPT !.frame.modelData = <<outcome.data>>,
                           !.frame.at = "parse"]
         ELSE [call EXCEPT !.frame.caught = <<outcome.error>>,
                           !.frame.at = "catch"]
  /\ UNCHANGED locals

\* Lines 64-70: the measurements are read from the body and returned; a
\* TypeError of the reading goes to the outer catch.
ExtractParse ==
  /\ call.fn \in {"POST /api/matterport/extract-measurements",
                  "extractMeasurements"}
  /\ call.frame.at = "parse"
  /\ call' =
       IF ExtractThrows(call.frame.modelData[1])
       THEN [call EXCEPT !.frame.caught = <<"TypeError">>,
                         !.frame.at = "catch"]
       ELSE [call EXCEPT
               !.frame.result =
                 <<[success |-> TRUE,
                    data |-> extractMeasurementsFromResponse(
                               call.frame.modelData[1])]>>,
               !.frame.at = "returned"]
  /\ UNCHANGED locals

\* Lines 56-61 and 71-76: the catch blocks return the fallback.
ExtractCatch ==
  /\ call.fn \in {"POST /api/matterport/extract-measurements",
                  "extractMeasurements"}
  /\ call.frame.at = "catch"
  /\ call' = [call EXCEPT
                !.frame.result = <<OnExtractError(call.args.modelSid)>>,
                !.frame.at = "returned"]
  /\ UNCHANGED locals

\* extractMeasurements has returned.  A direct call resolves with the
\* value; the route (lines 52-86) answers 500 when success is false and
\* 200 with the measurements otherwise.
ExtractReturn ==
  /\ call.fn \in {"POST /api/matterport/extract-measurements",
                  "extractMeasurements"}
  /\ call.frame.at = "returned"
  /\ call' =
       IF call.fn = "extractMeasurements"
       THEN [call EXCEPT !.ret = call.frame.result, !.frame.at = "done"]
       ELSE IF ~call.frame.result[1].success
       THEN [call EXCEPT
               !.ret = <<[status |-> 500,
                          message |->
                            "Failed to extract measurements from Matterport"]>>,
               !.frame.at = "done"]
       ELSE [call EXCEPT
               !.ret = <<[status |-> 200, success |-> TRUE,
                          data |-> call.frame.result[1].data]>>,
               !.frame.at = "done"]
  /\ UNCHANGED locals

NextMatterport ==
  \/ MatterportRoute
  \/ ExtractBegin
  \/ ExtractRemote
  \/ ExtractParse
  \/ ExtractCatch
  \/ ExtractReturn

SpecMatterport == InitMatterport /\ [][NextMatterport]_vars

(***************************************************************************)
(* Properties of the break-even gate and of input validation               *)
(***************************************************************************)

C2_TerminalAction ==
  /\ RequiredSet \subseteq DOMAIN userInputs => pc # "threw"
  /\ pc = "returned" => recommendation[1].action \in {"MAINTAIN", "SETBACK"}
  /\ recommendation # Null /\ optimal # Null =>
       recommendation[1].action = optimal[1].action

\* C3: when a required input is absent the analysis throws before any
\* computation step, and the error names exactly the absent fields.
C3_MissingRequired ==
  LET absent == RequiredSet \ DOMAIN userInputs
  IN absent # {} /\ pc # "validate" =>
       /\ pc = "threw"
       /\ steps = <<>> /\ inputs = Null /\ altitude_ft = Null
       /\ energyModel = Null /\ optimizerCalls = 0
       /\ {missing[i] : i \in 1..Len(missing)} = absent

(***************************************************************************)
(* Properties of findOptimalSetback                                        *)
(***************************************************************************)

\* C4: every candidate the optimizer accepts, the optimum it carries and the
\* candidate behind every SETBACK have recovery_time <= absence - drift_time
\* - 0.25 h and time_at_setback >= 0.5 h.
C4_AcceptedFeasible ==
  LET Meets(r) ==
        /\ r.recovery_time <= inputs[1].absence_duration - r.drift_time - 25
        /\ r.time_at_setback >= 50
  IN /\ \A i \in 1..Len(evaluated) :
          evaluated[i].accepted => Meets(evaluated[i].results)
     /\ search # Null /\ search[1].optimal_results # Null =>
          Meets(search[1].optimal_results[1])
     /\ optimal # Null /\ optimal[1].action = "SETBACK" =>
          Meets(optimal[1].energy_breakdown[1])
     /\ recommendation # Null /\ recommendation[1].action = "SETBACK" =>
          Meets(recommendation[1].energy_breakdown[1])

\* The optimizer accepted a candidate and the analysis returned SETBACK.
C4_Witness ==
  /\ pc = "returned"
  /\ recommendation[1].action = "SETBACK"
  /\ \E i \in 1..Len(evaluated) : evaluated[i].accepted

\* C5: in cooling the i-th candidate evaluated is T_d + 1 + i degrees, no
\* candidate lies above min(T_o - 2, T_d + 15), every candidate of that
\* range has been evaluated once the search is over, and none is evaluated
\* when T_o - T_d < 4.
C5_CoolingCandidates ==
  inputs # Null /\ inputs[1].outdoor_temp > inputs[1].desired_temp =>
    LET T_d == inputs[1].desired_temp
        T_o == inputs[1].outdoor_temp
        top == IF T_o - 200 < T_d + 1500 THEN T_o - 200 ELSE T_d + 1500
        range == {T_d + 100 * k : k \in {j \in 2..15 : T_d + 100 * j <= top}}
    IN /\ \A i \in 1..Len(evaluated) :
            /\ evaluated[i].T_setback = T_d + 100 * (i + 1)
            /\ evaluated[i].T_setback \in range
       /\ pc \in {"recommend", "savings", "returned"} /\ optimizerCalls = 1 =>
            {evaluated[i].T_setback : i \in 1..Len(evaluated)} = range
       /\ T_o - T_d < 400 => evaluated = <<>>

\* A cooling search that ran into the T_d + 15 cap has finished.
C5_Witness ==
  /\ pc = "recommend"
  /\ inputs[1].outdoor_temp > inputs[1].desired_temp + 1700
  /\ Len(evaluated) = 14
  /\ evaluated[14].T_setback = inputs[1].desired_temp + 1500

\* C6: in heating every candidate evaluated lies in the mirrored range
\* T_d - 2 down to max(T_o + 2, T_d - 15), every candidate of that range has
\* been evaluated once the search is over, and none is evaluated when
\* T_d - T_o < 4.
C6_HeatingCandidates ==
  inputs # Null /\ inputs[1].outdoor_temp < inputs[1].desired_temp =>
    LET T_d == inputs[1].desired_temp
        T_o == inputs[1].outdoor_temp
        bottom == IF T_o + 200 > T_d - 1500 THEN T_o + 200 ELSE T_d - 1500
        range == {T_d - 100 * k : k \in {j \in 2..15 : T_d - 100 * j >= bottom}}
    IN /\ \A i \in 1..Len(evaluated) : evaluated[i].T_setback \in range
       /\ pc \in {"recommend", "savings", "returned"} /\ optimizerCalls = 1 =>
            {evaluated[i].T_setback : i \in 1..Len(evaluated)} = range
       /\ T_d - T_o < 400 => evaluated = <<>>

\* C7: when the search is over and some feasible candidate uses less energy
\* than maintaining, the candidate selected is a feasible candidate of the
\* search range (T_d + 2 .. min(T_o - 2, T_d + 15) in cooling, mirrored in
\* heating) with the least total energy of all feasible candidates of that
\* range and, among those of equal energy, the smallest |T_s - T_d|.
C7_LeastEnergy ==
  pc = "recommend" =>
    LET T_d == inputs[1].desired_temp
        T_o == inputs[1].outdoor_temp
        a == inputs[1].absence_duration
        E_maintain == energyToMaintain(energyModel[1], T_d, T_o, a)
        range ==
          IF T_o > T_d
          THEN {T_d + 100 * k :
                  k \in {j \in 2..15 : /\ T_d + 100 * j <= T_o - 200}}
          ELSE {T_d - 100 * k :
                  k \in {j \in 2..15 : /\ T_d - 100 * j >= T_o + 200}}
        Meets(r) == /\ r.recovery_time <= a - r.drift_time - 25
                    /\ r.time_at_setback >= 50
        inRange == {c \in {[T_setback |-> t,
                            results |-> energyWithSetback(energyModel[1],
                                           T_d, t, T_o, a)] : t \in range} :
                      Meets(c.results)}
        accepted == {i \in 1..Len(evaluated) : evaluated[i].accepted}
    IN (\/ \E i \in 1..Len(evaluated) :
              /\ evaluated[i].feasible
              /\ evaluated[i].results.E_total < E_maintain
        \/ \E c \in inRange : c.results.E_total < E_maintain)
       => /\ accepted # {}
          /\ LET sel == evaluated[CHOOSE i \in accepted :
                                    \A j \in accepted : j <= i]
             IN /\ sel.T_setback \in range
                /\ \A c \in inRange :
                     /\ c.results.E_total >= sel.results.E_total
                     /\ c.results.E_total = sel.results.E_total =>
                          Abs(c.T_setback - T_d) >= Abs(sel.T_setback - T_d)

\* C8: when the search is over the optimizer answers SETBACK exactly when
\* its best feasible candidate saves at least 3% of the energy of
\* maintaining.
C8_ThreePercentMargin ==
  pc = "recommend" =>
    LET E_maintain == energyToMaintain(energyModel[1], inputs[1].desired_temp,
                         inputs[1].outdoor_temp, inputs[1].absence_duration)
        reaches == \E i \in 1..Len(evaluated) :
                     /\ evaluated[i].feasible
                     /\ (E_maintain - evaluated[i].results.E_total) * 100
                          >= 3 * E_maintain
    IN /\ reaches => optimal[1].action = "SETBACK"
       /\ ~reaches => optimal[1].action = "MAINTAIN"

\* C9: a MAINTAIN of the optimizer carries a non-empty reason; it is the
\* below-margin reason exactly when a feasible candidate used less energy
\* than maintaining, and it is the absence-too-short reason exactly when no
\* candidate was feasible, so that feasible candidates none of which
\* improves on maintaining get a third reason.
C9_ReasonIdentifiesCause ==
  pc = "recommend" /\ optimal[1].action = "MAINTAIN" =>
    LET E_maintain == energyToMaintain(energyModel[1], inputs[1].desired_temp,
                         inputs[1].outdoor_temp, inputs[1].absence_duration)
        feasible == {i \in 1..Len(evaluated) : evaluated[i].feasible}
        improving == {i \in feasible :
                        evaluated[i].results.E_total < E_maintain}
    IN /\ optimal[1].reason # ""
       /\ optimal[1].reason = "Potential savings too small to justify setback"
            <=> improving # {}
       /\ optimal[1].reason
            = "Absence duration too short for beneficial setback"
            <=> feasible = {}

\* C10: on SETBACK the restart offset is absence - recovery_time - 0.25 h
\* and lies in 0 .. absence - 0.25 h, and the restart clock time is the
\* start of the absence plus that offset, wrapped to 24 hours.
C10_RestartWindow ==
  /\ optimal # Null /\ optimal[1].action = "SETBACK" =>
       LET a == inputs[1].absence_duration
           offset == optimal[1].restart_time[1]
       IN /\ offset = a - optimal[1].recovery_time - 25
          /\ 0 <= offset
          /\ offset <= a - 25
  /\ recommendation # Null /\ recommendation[1].action = "SETBACK" =>
       LET st == IF "absence_start_time" \in DOMAIN userInputs
                 THEN userInputs.absence_start_time
                 ELSE [hours |-> 8, minutes |-> 0, period |-> "AM"]
           start == 600 * ((st.hours % 12)
                           + IF st.period = "PM" THEN 12 ELSE 0)
                    + 10 * st.minutes
           sum == start + 6 * optimal[1].restart_time[1]
       IN /\ recommendation[1].restart_clock = sum % 14400
          /\ recommendation[1].restart_clock \in 0..14399

\* A SETBACK whose restart falls on a later day than the departure.
C10_Witness ==
  /\ pc = "returned"
  /\ recommendation[1].action = "SETBACK"
  /\ optimal[1].restart_time[1] + 800 >= 2400
  /\ recommendation[1].restart_clock < 14400

(***************************************************************************)
(* Properties of the whole analysis                                        *)
(***************************************************************************)

\* C11: when an analysis returns SETBACK with percent saved p1, the analysis
\* of the same building and temperatures at every longer absence also
\* returns SETBACK, with percent saved at least p1.
C11_LongerAbsenceMonotone ==
  pc = "returned" /\ recommendation[1].action = "SETBACK" =>
    \A D2 \in {d \in AbsenceDurations : d > userInputs.absence_duration} :
      LET later == analyzeThermalStrategy(
                     [userInputs EXCEPT !.absence_duration = D2])
      IN /\ ~later.threw
         /\ later.recommendation.action = "SETBACK"
         /\ later.savings.percent_saved >= savings[1].percent_saved

\* C12: with two analyses in flight and interleaved at the await and at
\* their ends, each analysis that has finished threw or returned exactly
\* what analyzeThermalStrategy gives for its own request when it runs alone.
C12_Isolation ==
  /\ pc = "threw" =>
       /\ analyzeThermalStrategy(userInputs).threw
       /\ missing = analyzeThermalStrategy(userInputs).missing
  /\ pc = "returned" =>
       /\ ~analyzeThermalStrategy(userInputs).threw
       /\ recommendation[1] = analyzeThermalStrategy(userInputs).recommendation
       /\ savings[1] = analyzeThermalStrategy(userInputs).savings
  /\ suspended # Null /\ suspended[1].pc = "threw" =>
       /\ analyzeThermalStrategy(suspended[1].userInputs).threw
       /\ suspended[1].missing
            = analyzeThermalStrategy(suspended[1].userInputs).missing
  /\ suspended # Null /\ suspended[1].pc = "returned" =>
       /\ ~analyzeThermalStrategy(suspended[1].userInputs).threw
       /\ suspended[1].recommendation[1]
            = analyzeThermalStrategy(suspended[1].userInputs).recommendation
       /\ suspended[1].savings[1]
            = analyzeThermalStrategy(suspended[1].userInputs).savings

\* An analysis has returned SETBACK while another analysis, of another
\* request, is parked at its await.
C12_Witness ==
  /\ pc = "returned"
  /\ recommendation[1].action = "SETBACK"
  /\ suspended # Null
  /\ suspended[1].pc = "altitude"
  /\ suspended[1].userInputs # userInputs

\* C13: the analysis of the workday scenario returns SETBACK with a time
\* constant of 2 to 5 hours, a break-even time of 5 to 12.5 hours and
\* annual savings above 0.
C13_WorkdayScenario ==
  userInputs = WorkdayRequest /\ pc = "returned" =>
    /\ recommendation[1].action = "SETBACK"
    /\ energyModel[1].tau \in 200..500
    /\ t_breakeven[1] \in 5000..12500
    /\ savings[1].cost_saved_annual > 0

\* C14: an analysis that has returned reports an annual cost saving above 0
\* exactly when its action is SETBACK.
C14_AnnualSavingIffSetback ==
  pc = "returned" =>
    (savings[1].cost_saved_annual > 0 <=> recommendation[1].action = "SETBACK")

\* C15: every SETBACK recommendation carries a restart time and a reported
\* recovery time above 0 and below 5 hours.
C15_SetbackRestartAndRecovery ==
  recommendation # Null /\ recommendation[1].action = "SETBACK" =>
    /\ recommendation[1].restart_time # Null
    /\ recommendation[1].recovery_time > 0
    /\ recommendation[1].recovery_time < 50

(***************************************************************************)
(* Properties of the engine's functions                                    *)
(***************************************************************************)

\* C16: getTimeToReachTemperature returns 0 when T_initial = T_outdoor; when
\* they differ, by however little, it returns Infinity exactly when the
\* ratio (T_target - T_outdoor) / (T_initial - T_outdoor) is <= 0 or >= 1,
\* and the finite positive time -tau * ln(ratio) otherwise.
C16_TimeToReach ==
  call # Null /\ call.fn = "getTimeToReachTemperature" /\ call.ret # Null =>
    LET a == call.args
        den == Abs(a.T_initial - a.T_outdoor)
        num == IF a.T_initial < a.T_outdoor THEN a.T_outdoor - a.T_target
                                            ELSE a.T_target - a.T_outdoor
    IN /\ a.T_initial = a.T_outdoor => call.ret[1] = 0
       /\ a.T_initial # a.T_outdoor =>
            /\ call.ret[1] = Infinity <=> (num <= 0 \/ num >= den)
            /\ (0 < num /\ num < den) =>
                 /\ call.ret[1] > 0
                 /\ call.ret[1] = (a.tau * NegLn(num, den)) \div FP

\* C17: when getTemperatureAtTime(T_i, T_o, t), t > 0 and T_i # T_o, lies
\* strictly between T_i and T_o, getTimeToReachTemperature from T_i to that
\* temperature is t, however close T_i and T_o are.  Temperatures are held
\* to 0.01 F, so "is t" is: within the time the temperature takes to move by
\* 0.01 F at the temperature reached, tau / |T_target - T_outdoor|, plus dt.
C17_RoundTrip ==
  /\ call # Null /\ call.fn = "getTimeToReachTemperature"
  /\ call.elapsed # Null /\ call.ret # Null
  /\ call.args.T_initial # call.args.T_outdoor
  /\ call.elapsed[1] > 0
  /\ \/ call.args.T_initial < call.args.T_target
        /\ call.args.T_target < call.args.T_outdoor
     \/ call.args.T_outdoor < call.args.T_target
        /\ call.args.T_target < call.args.T_initial
  => Abs(call.ret[1] - call.elapsed[1])
         * Abs(call.args.T_target - call.args.T_outdoor)
       <= call.args.tau
            + dt * Abs(call.args.T_target - call.args.T_outdoor)

\* C18: for every input with floor_area > 0, ceiling_height > 0 and
\* num_floors >= 1, whatever the window percent and the number of doors,
\* every component area of the envelope is non-negative, tau is positive and
\* the effective U-factor lies strictly between the smallest and the largest
\* of the five component U-factors.
C18_EnvelopeWellFormed ==
  /\ call # Null /\ call.fn = "BuildingEnvelope" /\ call.ret # Null
  /\ call.args.floor_area > 0 /\ call.args.ceiling_height > 0
  /\ call.args.num_floors >= 1
  => LET c == call.ret[1].components
         parts == {"walls", "windows", "doors", "roof", "floor"}
         u == call.ret[1].effective_u_factor
     IN /\ \A k \in parts : c[k].area >= 0
        /\ call.ret[1].tau > 0
        /\ \E k \in parts : c[k].U_factor < u
        /\ \E k \in parts : c[k].U_factor > u

C20_AltitudeLookup ==
  call # Null /\ call.fn = "getAltitudeFromZip" /\ call.ret # Null =>
    LET prefix == SubSeq(call.args.zip_code, 1, 2)
    IN IF prefix \in DOMAIN ALTITUDE_LOOKUP
       THEN call.ret[1] = ALTITUDE_LOOKUP[prefix]
       ELSE call.ret[1] = 500

(***************************************************************************)
(* Claims C21..C30                                                         *)
(***************************************************************************)
\* C27: whenever the action returned is MAINTAIN, by the break-even gate or
\* by the optimizer, the recommendation has setback_temp equal to the
\* desired temperature, a null restart_time and recovery_time 0, and every
\* savings figure is 0.
C27_MaintainIsNeutral ==
  pc = "returned" /\ recommendation[1].action = "MAINTAIN" =>
    /\ recommendation[1].setback_temp = inputs[1].desired_temp
    /\ recommendation[1].restart_time = Null
    /\ recommendation[1].recovery_time = 0
    /\ savings[1].energy_saved_kwh = 0
    /\ savings[1].cost_saved_per_occurrence = 0
    /\ savings[1].cost_saved_monthly = 0
    /\ savings[1].cost_saved_annual = 0
    /\ savings[1].percent_saved = 0

\* The optimizer found a feasible setback cheaper than maintaining, and the
\* action returned is MAINTAIN all the same (the margin was too small).
C27_Witness ==
  /\ pc = "returned" /\ recommendation[1].action = "MAINTAIN"
  /\ optimizerCalls = 1
  /\ \E i \in 1..Len(evaluated) :
       /\ evaluated[i].accepted
       /\ evaluated[i].T_setback # inputs[1].desired_temp
       /\ evaluated[i].results.recovery_time > 0

\* C28: for every num_floors >= 1 the conditioned volume of the envelope is
\* footprint area * total wall height, that is floor_area * ceiling_height,
\* so the volume behind the thermal capacitance does not grow with
\* num_floors.  (Areas are in tenths of a square foot.)
C28_VolumeOfGeometry ==
  call # Null /\ call.fn = "BuildingEnvelope" /\ call.ret # Null =>
    LET c == call.ret[1].components
    IN /\ 10 * c.volume = c.geometry.footprint_area * c.geometry.wall_height
       /\ c.volume = call.args.floor_area * call.args.ceiling_height

\* C29: the restart and return clock strings of every SETBACK
\* recommendation are valid 12-hour clock times: an hour in 1..12, minutes
\* in 0..59 and the period of the hour of the day (AM before noon).
C29_ClockStrings ==
  recommendation # Null /\ recommendation[1].action = "SETBACK" =>
    LET in == inputs[1]
        st == IF "absence_start_time" \in DOMAIN in
              THEN in.absence_start_time
              ELSE [hours |-> 8, minutes |-> 0, period |-> "AM"]
        start == 600 * ((st.hours % 12) + IF st.period = "PM" THEN 12 ELSE 0)
                 + 10 * st.minutes
        return_clock == (start + 6 * in.absence_duration) % 14400
        Valid(clock, str) ==
          /\ str.h12 \in 1..12
          /\ str.m \in 0..59
          /\ str.period = IF clock < 7200 THEN "AM" ELSE "PM"
          /\ str.h12 % 12 = (clock \div 600) % 12
    IN /\ Valid(recommendation[1].restart_clock,
                recommendation[1].restart_time[1])
       /\ Valid(return_clock, recommendation[1].return_time[1])

\* C25: SETBACK is reachable through the search range in cooling: there is
\* a request with T_o - T_d >= 4 F and absence_duration >= 2.5 tau for which
\* findOptimalSetback returns SETBACK at a candidate strictly between T_d
\* and T_o whose recovery time from getTimeToReachTemperature is finite.
C25_CoolingSetbackReachable ==
  \E request \in Requests :
    /\ Len(MissingFields(request)) = 0
    /\ request.outdoor_temp - request.desired_temp >= 400
    /\ LET in == request @@ Defaults
           m == NewEnergyModel(in, getAltitudeFromZip(in.zip_code))
       IN /\ ~BelowBreakEven(in.absence_duration, m.tau)
          /\ LET opt == findOptimalSetback(m, in)
             IN /\ opt.action = "SETBACK"
                /\ in.desired_temp < opt.setback_temp
                /\ opt.setback_temp < in.outdoor_temp
                /\ getTimeToReachTemperature(m.tau, opt.setback_temp,
                       in.desired_temp, in.outdoor_temp) < Infinity

\* C26: for every candidate simulated by energyWithSetback with an absence
\* D > 0, the drift, hold and recovery durations are each >= 0 and together
\* at most D, the drift lasts at most 0.4 D, each phase energy is >= 0 and
\* E_total is the sum of the three phase energies.
C26_PhasesFitAbsence ==
  \A i \in 1..Len(evaluated) :
    inputs[1].absence_duration > 0 =>
      LET r == evaluated[i].results
          D == inputs[1].absence_duration
      IN /\ r.drift_time >= 0 /\ r.time_at_setback >= 0
         /\ r.recovery_time >= 0
         /\ r.drift_time + r.time_at_setback + r.recovery_time <= D
         /\ 10 * r.drift_time <= 4 * D
         /\ r.E_cooldown >= 0 /\ r.E_maintain_setback >= 0
         /\ r.E_recovery >= 0
         /\ r.E_total = r.E_cooldown + r.E_maintain_setback + r.E_recovery

\* A candidate that drifted, was held at setback and recovered, each for a
\* positive time and with energy spent in the hold and in the recovery.
C26_Witness ==
  \E i \in 1..Len(evaluated) :
    LET r == evaluated[i].results
    IN /\ r.drift_time > 0 /\ r.time_at_setback > 0 /\ r.recovery_time > 0
       /\ r.E_maintain_setback > 0 /\ r.E_recovery > 0
       /\ r.recovery_time < inputs[1].absence_duration - r.drift_time

\* C24: every analysis whose input passed the validation of the required
\* fields returns: its search simulates at most 14 candidates and the drift
\* loop and the recovery loop of each simulation come to an end.
C24_AnalysisTerminates ==
  /\ [](Len(evaluated) <= 14)
  /\ pc = "defaults" ~> pc = "returned"

(***************************************************************************)
(* Properties of POST /api/calculate                                       *)
(***************************************************************************)
\* The response of a request that has been answered.
Answered == call.fn = "POST /api/calculate" /\ call.ret # Null

\* A required field that is undefined, null, an empty (or blank) string or
\* not a valid number.
NotSupplied(formData, field) ==
  \/ field \notin DOMAIN formData
  \/ formData[field].type \in {"null", "NaN"}
  \/ /\ formData[field].type = "string"
     /\ formData[field].kind \in {"empty", "blank", "other"}

\* C21: a required field of POST /api/calculate is missing only when it is
\* undefined, null, an empty string or not a valid number.  A request with
\* such a field is answered 400 naming exactly those fields; a request all
\* four of whose fields are valid numbers, 0 included, is never answered
\* with a "Missing required fields" error by a later layer.
C21_MissingOnlyWhenNotSupplied ==
  Answered /\ "formData" \in DOMAIN call.args =>
    LET notSupplied ==
          SelectSeq(requiredFields,
                    LAMBDA field : NotSupplied(call.args.formData, field))
        response == call.ret[1]
    IN IF Len(notSupplied) > 0
       THEN /\ response.status = 400
            /\ response.message = "Missing required fields"
            /\ response.fields = notSupplied
       ELSE \/ response.status = 200
            \/ response.message # "Missing required fields"

\* What the scan sent with a request measured, 0 when it did not measure
\* it: the raw scan gives width x depth, its height and its openings, the
\* processed scan the values processRoomScan computed.
ScanFloorArea(roomData) ==
  IF "dimensions" \in DOMAIN roomData
  THEN roomData.dimensions.width * roomData.dimensions.depth
  ELSE Chain(roomData, "processedDimensions", "floorArea")

ScanCeilingHeight(roomData) ==
  IF "dimensions" \in DOMAIN roomData THEN roomData.dimensions.height
  ELSE Chain(roomData, "processedDimensions", "height")

ScanWindowAreaPercent(roomData) ==
  IF "openings" \in DOMAIN roomData
  THEN roomData.openings.windowAreaPercent
  ELSE OrDefault(roomData, "windowAreaPercent", 0)

ScanDoors(roomData) ==
  IF "openings" \in DOMAIN roomData THEN roomData.openings.doors
  ELSE Chain(roomData, "openingCount", "doors")

\* C22: for floor area, ceiling height, window-area fraction and door
\* count, each on its own: the engine is run with the value the room scan
\* of the request supplies (500 ft2 for the scan dimensions 25 x 20 ft),
\* and with the form's value or its default when the scan does not supply
\* one; a value the scan did not measure never overrides the form's.
C22_ScanOverridesForm ==
  call.fn = "POST /api/calculate" /\ call.frame.at \in {"engine", "done"}
  /\ userInputs # Null =>
    LET f == WithFormDefaults(call.frame.formData[1])
        roomData == call.frame.roomData[1]
    IN /\ userInputs.floor_area = Or(ScanFloorArea(roomData), f.floorArea)
       /\ userInputs.ceiling_height =
            Or(ScanCeilingHeight(roomData), Or(f.ceilingHeight, 8))
       /\ userInputs.window_area_percent =
            Or(ScanWindowAreaPercent(roomData), Or(f.windowAreaPercent, 15))
       /\ userInputs.num_exterior_doors =
            Or(ScanDoors(roomData), Or(f.numExteriorDoors, 2))

\* A form without the fields that only the rebate eligibility reads.
WithoutRebateAnswers(formData) ==
  [field \in (DOMAIN formData) \ RebateOnly |-> formData[field]]

\* The thermal part of the result the service computes when the engine
\* returns.
ThermalPartOf(formData, roomData) ==
  LET ashraeInputs == mapFormDataToASHRAEInputs(formData, roomData)
      ashraeResult == analyzeThermalStrategy(ashraeInputs)
  IN mapASHRAEResultsToAppFormat(
       ashraeInputs @@ Defaults, ashraeResult.tau,
       ashraeResult.recommendation, ashraeResult.savings,
       WithFormDefaults(formData).absenceEndTime)

C30_ExtractAlwaysSucceeds ==
  call.fn \in {"POST /api/matterport/extract-measurements",
               "extractMeasurements"} =>
    /\ call.frame.at \in {"returned", "done"} /\ call.ret = Null =>
         call.frame.result # Null
    /\ call.frame.result # Null =>
         /\ call.frame.result[1].success
         /\ IF call.frame.caught # Null
            THEN call.frame.result[1] =
                   getFallbackMeasurements(call.args.modelSid)
            ELSE call.frame.result[1].data =
                   extractMeasurementsFromResponse(call.frame.modelData[1])
    /\ call.frame.at = "done" /\ call.fn = "extractMeasurements" =>
         call.ret # Null /\ call.ret[1].success
    /\ call.ret # Null /\ call.fn # "extractMeasurements" =>
         call.ret[1].status # 500

\* The remote call of a request of the route timed out and the request was
\* answered with the fallback measurements.
C30_Witness ==
  /\ call.fn = "POST /api/matterport/extract-measurements"
  /\ call.ret # Null /\ call.ret[1].status = 200
  /\ call.frame.caught = <<"timeout of 30000ms exceeded">>
  /\ call.ret[1].data.floorArea = 2000

====
